---- MODULE Spec2Model ----
(***************************************************************************)
(* A model of the rug repository (a git-compatible VCS written in Rust):   *)
(* lock files, the in-memory index, the reference layer, tree diff, the    *)
(* migration planner and the commands that drive them.                     *)
(*                                                                         *)
(* Paths are sequences of names (<<"a","b">> is a/b).  Modes are the       *)
(* numbers the code uses (0o100644 = 33188, 0o100755 = 33261,              *)
(* 0o40000 = 16384); file permissions are 0o644 = 420 and 0o755 = 493.     *)
(* A blob's OID is its data (content addressing), a commit's OID is its    *)
(* position in the object store.                                           *)
(***************************************************************************)
EXTENDS Integers, Sequences, FiniteSets, TLC

VARIABLES
    ws,         \* the working tree: path -> absent / directory / file
    gitdir,     \* which directories of .git exist: "none", "objects", "full"
    indexFile,  \* the file .git/index: [present, entries]
    locks,      \* the *.lock files on disk: lock path -> bytes written so far
    refs,       \* the ref files on disk (HEAD, refs/heads/*): path -> content
    commits,    \* the commit objects of the object store, by OID
    result,     \* what the last operation was and how it ended
    edits,      \* number of edits the user has made to the working tree
    index,      \* an in-memory Index (entries, parents, changed)
    lk,         \* per process: its Lockfile handle
    tdata       \* the target files the Lockfile handles protect

vars == <<ws, gitdir, indexFile, locks, refs, commits, result, edits, index, lk, tdata>>

repoVars == <<ws, gitdir, indexFile, refs, commits, edits>>

---------------------------------------------------------------------------
(* Bounds of the model *)

MaxEdits == 1

MaxCommits == 2

MaxWrites == 1

AllPaths == {<<"a">>, <<"a", "b">>, <<"a", "b", "c">>, <<"a", "d">>}

Blobs == {1, 2}

Perms == {420, 493}

Branches == {"master", "topic"}

Procs == {1, 2}

LockTargets == {<<"index">>, <<"refs", "heads", "topic">>, <<"refs", "heads", "topic.x">>}

LockData == {1}

---------------------------------------------------------------------------
(* Program constants *)

TREE_MODE == 16384

REGULAR_MODE == 33188

EXECUTABLE_MODE == 33261

DEFAULT_BRANCH == "master"

---------------------------------------------------------------------------
(* Finite maps *)

EmptyMap == [x \in {} |-> 0]

MapPut(f, k, v) == [x \in (DOMAIN f) \cup {k} |-> IF x = k THEN v ELSE f[x]]

MapDel(f, k) == [x \in (DOMAIN f) \ {k} |-> f[x]]

IsPrefix(p, q) == Len(p) <= Len(q) /\ SubSeq(q, 1, Len(p)) = p

IsStrictPrefix(p, q) == Len(p) < Len(q) /\ SubSeq(q, 1, Len(p)) = p

Res(cmd, status) == [cmd |-> cmd, status |-> status, proc |-> 0, from |-> 0, to |-> 0, clean |-> FALSE, aux |-> 0]

---------------------------------------------------------------------------
(* lockfile.rs *)

\* Path::file_stem of the last component: the name up to its last dot.
FileStem(name) == CASE name = "topic.x" -> "topic" [] OTHER -> name

\* the file name <stem>.lock
LockName(stem) ==
    CASE stem = "index" -> "index.lock"
      [] stem = "HEAD" -> "HEAD.lock"
      [] stem = "master" -> "master.lock"
      [] stem = "topic" -> "topic.lock"
      [] stem = "new" -> "new.lock"
      [] OTHER -> "other.lock"

\* Path::with_extension("lock"): replaces the extension of the last component.
with_extension(path) == [path EXCEPT ![Len(path)] = LockName(FileStem(path[Len(path)]))]

\* Lockfile::new
Lockfile(path) == [file_path |-> path, lock_path |-> with_extension(path), held |-> FALSE]

\* create(true) in place of create_new(true): an existing lock file is opened.
hold_for_update_nonexclusive(h, lks, dirok) ==
    IF h.held THEN [err |-> "", h |-> h, locks |-> lks]
    ELSE IF ~dirok THEN [err |-> "NotFound", h |-> h, locks |-> lks]
    ELSE [err |-> "", h |-> [h EXCEPT !.held = TRUE],
          locks |-> IF h.lock_path \in DOMAIN lks THEN lks ELSE MapPut(lks, h.lock_path, <<>>)]

\* Lockfile::hold_for_update; dirok: the directory of the lock file exists.
hold_for_update(h, lks, dirok) ==
    IF h.held THEN [err |-> "", h |-> h, locks |-> lks]
    ELSE IF ~dirok THEN [err |-> "NotFound", h |-> h, locks |-> lks]
    ELSE IF h.lock_path \in DOMAIN lks THEN [err |-> "AlreadyExists", h |-> h, locks |-> lks]
    ELSE [err |-> "", h |-> [h EXCEPT !.held = TRUE], locks |-> MapPut(lks, h.lock_path, <<>>)]

\* Lockfile::raise_on_stale_lock
raise_on_stale_lock(h) == IF h.held THEN "" ELSE "Other"

\* Lockfile::write_bytes: appends to the lock file.
lock_write(h, lks, data) ==
    IF raise_on_stale_lock(h) # "" THEN [err |-> "Other", h |-> h, locks |-> lks]
    ELSE [err |-> "", h |-> h, locks |-> [lks EXCEPT ![h.lock_path] = Append(@, data)]]

\* Lockfile::commit: the handle is cleared, then the lock file is renamed over the target.
lock_commit(h, lks, files) ==
    IF raise_on_stale_lock(h) # "" THEN [err |-> "Other", h |-> h, locks |-> lks, files |-> files]
    ELSE [err |-> "", h |-> [h EXCEPT !.held = FALSE],
          locks |-> MapDel(lks, h.lock_path),
          files |-> MapPut(files, h.file_path, lks[h.lock_path])]

\* a rollback that clears the handle and leaves the lock file.
lock_rollback_keep_file(h, lks) ==
    IF raise_on_stale_lock(h) # "" THEN [err |-> "Other", h |-> h, locks |-> lks]
    ELSE [err |-> "", h |-> [h EXCEPT !.held = FALSE], locks |-> lks]

\* Lockfile::rollback: the lock file is removed.
lock_rollback(h, lks) ==
    IF raise_on_stale_lock(h) # "" THEN [err |-> "Other", h |-> h, locks |-> lks]
    ELSE [err |-> "", h |-> [h EXCEPT !.held = FALSE], locks |-> MapDel(lks, h.lock_path)]

---------------------------------------------------------------------------
(* index.rs: Entry and the in-memory Index *)

\* Entry::is_executable: (mode >> 6) & 1 == 1
is_executable(mode) == (mode \div 64) % 2 = 1

\* Entry::mode
entry_mode(mode) == IF is_executable(mode) THEN EXECUTABLE_MODE ELSE REGULAR_MODE

\* Entry::new; stat is the file's metadata [mode, size], mode being st_mode
NewEntry(pathname, oid, stat) ==
    [path |-> pathname, oid |-> oid, mode |-> entry_mode(stat.mode), size |-> stat.size]

\* Entry::parent_dirs: the proper ancestors of the path, outermost first.
parent_dirs(path) == [i \in 1..(Len(path) - 1) |-> SubSeq(path, 1, i)]

\* Index::new / Index::clear
NewIndex == [entries |-> EmptyMap, parents |-> EmptyMap, changed |-> FALSE]

RECURSIVE RemoveFromParents(_, _, _, _)
RemoveFromParents(parents, dirs, i, pathname) ==
    IF i > Len(dirs) THEN parents
    ELSE LET d == dirs[i]
             next == IF d \in DOMAIN parents
                     THEN LET s == parents[d] \ {pathname}
                          IN IF s = {} THEN MapDel(parents, d) ELSE [parents EXCEPT ![d] = s]
                     ELSE parents
         IN RemoveFromParents(next, dirs, i + 1, pathname)

\* remove_entry that leaves the emptied sets of the parents map in place.
remove_entry_keep_empty(ix, pathname) ==
    IF pathname \in DOMAIN ix.entries
    THEN [ix EXCEPT !.entries = MapDel(@, pathname),
                    !.parents = [d \in DOMAIN @ |-> @[d] \ {pathname}]]
    ELSE ix

\* Index::remove_entry
remove_entry(ix, pathname) ==
    IF pathname \in DOMAIN ix.entries
    THEN [ix EXCEPT !.entries = MapDel(@, pathname),
                    !.parents = RemoveFromParents(@, parent_dirs(pathname), 1, pathname)]
    ELSE ix

RECURSIVE RemoveAll(_, _)
RemoveAll(ix, paths) ==
    IF paths = {} THEN ix
    ELSE LET p == CHOOSE x \in paths : TRUE
         IN RemoveAll(remove_entry(ix, p), paths \ {p})

RECURSIVE RemoveSeq(_, _, _)
RemoveSeq(ix, dirs, i) ==
    IF i > Len(dirs) THEN ix ELSE RemoveSeq(remove_entry(ix, dirs[i]), dirs, i + 1)

\* discard_conflicts that forgets the entries below the new path.
discard_conflicts_parents_only(ix, path) == RemoveSeq(ix, parent_dirs(path), 1)

\* Index::discard_conflicts
discard_conflicts(ix, path) ==
    LET ix1 == RemoveSeq(ix, parent_dirs(path), 1)
        to_remove == IF path \in DOMAIN ix1.parents THEN ix1.parents[path] ELSE {}
    IN RemoveAll(ix1, to_remove)

RECURSIVE AddToParents(_, _, _, _)
AddToParents(parents, dirs, i, pathname) ==
    IF i > Len(dirs) THEN parents
    ELSE LET d == dirs[i]
             next == IF d \in DOMAIN parents
                     THEN [parents EXCEPT ![d] = @ \cup {pathname}]
                     ELSE MapPut(parents, d, {pathname})
         IN AddToParents(next, dirs, i + 1, pathname)

\* Index::store_entry
store_entry(ix, entry) ==
    [ix EXCEPT !.entries = MapPut(@, entry.path, entry),
               !.parents = AddToParents(@, parent_dirs(entry.path), 1, entry.path)]

\* Index::add
index_add(ix, pathname, oid, stat) ==
    LET entry == NewEntry(pathname, oid, stat)
    IN [store_entry(discard_conflicts(ix, entry.path), entry) EXCEPT !.changed = TRUE]

\* Index::remove: the entry at the path and every entry below it
index_remove(ix, pathname) ==
    LET children == IF pathname \in DOMAIN ix.parents THEN ix.parents[pathname] ELSE {}
    IN [remove_entry(RemoveAll(ix, children), pathname) EXCEPT !.changed = TRUE]

\* Index::is_tracked_path
is_tracked_path(ix, pathname) == pathname \in DOMAIN ix.entries

\* Index::is_tracked
is_tracked(ix, pathname) == is_tracked_path(ix, pathname) \/ pathname \in DOMAIN ix.parents

\* Index::entry_for_path
entry_for_path(ix, path) ==
    IF path \in DOMAIN ix.entries THEN [some |-> TRUE, e |-> ix.entries[path]]
    ELSE [some |-> FALSE, e |-> NewEntry(path, 0, [mode |-> REGULAR_MODE, size |-> 0])]

\* the parents map a freshly loaded set of entries has (Index::read_entries stores each)
RECURSIVE StoreAll(_, _, _)
StoreAll(ix, entries, todo) ==
    IF todo = {} THEN ix
    ELSE LET p == CHOOSE x \in todo : TRUE
         IN StoreAll(store_entry(ix, entries[p]), entries, todo \ {p})

---------------------------------------------------------------------------
(* The state before any command has run: an empty directory *)

NoFile == [k |-> "none", data |-> 0, perm |-> 0]

DirNode == [k |-> "dir", data |-> 0, perm |-> 0]

FileNode(data, perm) == [k |-> "file", data |-> data, perm |-> perm]

NoIndexFile == [present |-> FALSE, entries |-> EmptyMap]

RepoIdle ==
    /\ ws = [p \in AllPaths |-> NoFile]
    /\ gitdir = "none"
    /\ indexFile = NoIndexFile
    /\ refs = EmptyMap
    /\ commits = <<>>
    /\ edits = 0

---------------------------------------------------------------------------
(* SpecLock: processes taking, writing, committing and dropping Lockfile handles *)

InitLock ==
    /\ RepoIdle
    /\ locks = EmptyMap
    /\ result = Res("start", "")
    /\ index = NewIndex
    /\ lk = [p \in Procs |-> Lockfile(<<"index">>)]
    /\ tdata = EmptyMap

\* Lockfile::new on a path; a handle the process had is dropped (Lockfile has no
\* Drop implementation, so a lock file it had created stays on disk), as when the
\* process crashes or exits without commit or rollback.
LockNew(p, path) ==
    /\ lk' = [lk EXCEPT ![p] = Lockfile(path)]
    /\ result' = [Res("new", "") EXCEPT !.proc = p]
    /\ UNCHANGED <<repoVars, locks, index, tdata>>

HoldForUpdate(p) ==
    LET r == hold_for_update(lk[p], locks, TRUE)
    IN /\ lk' = [lk EXCEPT ![p] = r.h]
       /\ locks' = r.locks
       /\ result' = [Res("hold_for_update", r.err) EXCEPT !.proc = p]
       /\ UNCHANGED <<repoVars, index, tdata>>

LockWrite(p, data) ==
    LET r == lock_write(lk[p], locks, data)
    IN /\ lk[p].held => Len(locks[lk[p].lock_path]) < MaxWrites
       /\ lk' = [lk EXCEPT ![p] = r.h]
       /\ locks' = r.locks
       /\ result' = [Res("write", r.err) EXCEPT !.proc = p]
       /\ UNCHANGED <<repoVars, index, tdata>>

LockCommit(p) ==
    LET r == lock_commit(lk[p], locks, tdata)
    IN /\ lk' = [lk EXCEPT ![p] = r.h]
       /\ locks' = r.locks
       /\ tdata' = r.files
       /\ result' = [Res("commit", r.err) EXCEPT !.proc = p]
       /\ UNCHANGED <<repoVars, index>>

LockRollback(p) ==
    LET r == lock_rollback(lk[p], locks)
    IN /\ lk' = [lk EXCEPT ![p] = r.h]
       /\ locks' = r.locks
       /\ result' = [Res("rollback", r.err) EXCEPT !.proc = p]
       /\ UNCHANGED <<repoVars, index, tdata>>

NextLock ==
    \/ \E p \in Procs, path \in LockTargets : LockNew(p, path)
    \/ \E p \in Procs : HoldForUpdate(p)
    \/ \E p \in Procs, data \in LockData : LockWrite(p, data)
    \/ \E p \in Procs : LockCommit(p)
    \/ \E p \in Procs : LockRollback(p)

SpecLock == InitLock /\ [][NextLock]_vars

---------------------------------------------------------------------------
(* SpecIndex: any sequence of Index::add calls on an in-memory index *)

\* the metadata of regular files: st_mode is S_IFREG (0o100000 = 32768) plus the permissions
FileStats == [mode : {32768 + p : p \in Perms}, size : {1, 2}]

InitIndex ==
    /\ RepoIdle
    /\ locks = EmptyMap
    /\ result = Res("start", "")
    /\ index = NewIndex
    /\ lk = [p \in Procs |-> Lockfile(<<"index">>)]
    /\ tdata = EmptyMap

\* repo.index.add(path, oid, stat); aux counts the entries the add discarded.
IndexAdd(path, oid, stat) ==
    LET ix == index_add(index, path, oid, stat)
    IN /\ index' = ix
       /\ result' = [Res("index.add", "") EXCEPT
                        !.aux = Cardinality((DOMAIN index.entries) \ ((DOMAIN ix.entries) \cup {path}))]
       /\ UNCHANGED <<repoVars, locks, lk, tdata>>

\* repo.index.clear()
IndexClear ==
    /\ index' = NewIndex
    /\ result' = Res("index.clear", "")
    /\ UNCHANGED <<repoVars, locks, lk, tdata>>

NextIndex ==
    \/ \E path \in AllPaths, oid \in Blobs, stat \in FileStats : IndexAdd(path, oid, stat)
    \/ IndexClear

SpecIndex == InitIndex /\ [][NextIndex]_vars

---------------------------------------------------------------------------
(* refs.rs: the ref files HEAD and refs/heads/<branch> *)

\* What is written to a ref file: an object id, the line "ref: <path>", and "\n".
\* A file's content is the sequence of what was written to it.
OidStr(n) == [k |-> "oid", oid |-> n, path |-> <<>>]

SymStr(path) == [k |-> "sym", oid |-> 0, path |-> path]

NL == [k |-> "nl", oid |-> 0, path |-> <<>>]

\* Refs::head_path
HeadPath == <<"HEAD">>

\* Refs::heads_path().join(name)
heads_path(name) == <<"refs", "heads", name>>

\* the directory a file of .git lives in exists (.git itself, or .git/refs/heads)
DirExists(gd, path) == IF Len(path) = 1 THEN gd # "none" ELSE gd = "full"

\* the part of the disk the ref layer works on, with the error of the last call
Disk(gd, files, lks) == [err |-> "", gd |-> gd, refs |-> files, locks |-> lks]

\* str::trim on a file's content
Trim(content) ==
    IF content # <<>> /\ content[Len(content)] = NL
    THEN SubSeq(content, 1, Len(content) - 1)
    ELSE content

NoRef == [some |-> FALSE, k |-> "oid", oid |-> 0, path |-> <<>>]

\* Refs::read_oid_or_symref: None, Ref{oid} or SymRef{path}; an empty file is Ref{oid: ""} (oid 0)
read_oid_or_symref(files, path) ==
    IF path \notin DOMAIN files THEN NoRef
    ELSE LET t == Trim(files[path])
         IN IF t # <<>> /\ t[1].k = "sym"
            THEN [some |-> TRUE, k |-> "sym", oid |-> 0, path |-> t[1].path]
            ELSE [some |-> TRUE, k |-> "oid", oid |-> IF t = <<>> THEN 0 ELSE t[1].oid, path |-> <<>>]

\* Refs::read_symref; a chain longer than the number of files is a cycle, on which
\* the recursion never returns (loop)
RECURSIVE read_symref(_, _, _)
read_symref(files, path, fuel) ==
    LET r == read_oid_or_symref(files, path)
    IN IF ~r.some THEN [some |-> FALSE, oid |-> 0, loop |-> FALSE]
       ELSE IF r.k = "oid" THEN [some |-> TRUE, oid |-> r.oid, loop |-> FALSE]
       ELSE IF fuel = 0 THEN [some |-> FALSE, oid |-> 0, loop |-> TRUE]
       ELSE read_symref(files, r.path, fuel - 1)

\* Refs::read_head
read_head(files) == read_symref(files, HeadPath, Cardinality(DOMAIN files))

\* Refs::path_for_name: the name under .git, .git/refs or .git/refs/heads
path_for_name(files, name) ==
    IF <<name>> \in DOMAIN files THEN [some |-> TRUE, path |-> <<name>>]
    ELSE IF <<"refs", name>> \in DOMAIN files THEN [some |-> TRUE, path |-> <<"refs", name>>]
    ELSE IF heads_path(name) \in DOMAIN files THEN [some |-> TRUE, path |-> heads_path(name)]
    ELSE [some |-> FALSE, path |-> <<>>]

\* Refs::read_ref
read_ref(files, name) ==
    LET p == path_for_name(files, name)
    IN IF p.some THEN read_symref(files, p.path, Cardinality(DOMAIN files))
       ELSE [some |-> FALSE, oid |-> 0, loop |-> FALSE]

\* Refs::write_lockfile
write_lockfile(h, d, val) ==
    LET w1 == lock_write(h, d.locks, val)
        w2 == lock_write(w1.h, w1.locks, NL)
        c == lock_commit(w2.h, w2.locks, d.refs)
    IN [d EXCEPT !.err = c.err, !.refs = c.files, !.locks = c.locks]

\* Refs::update_ref_file
update_ref_file(d, path, val) ==
    LET h == hold_for_update(Lockfile(path), d.locks, DirExists(d.gd, path))
    IN IF h.err # "" THEN [d EXCEPT !.err = h.err]
       ELSE write_lockfile(h.h, [d EXCEPT !.locks = h.locks], val)

\* Refs::update_symref: the lock on a symbolic ref is neither committed nor rolled
\* back when the call recurses into the ref it points to
RECURSIVE update_symref(_, _, _)
update_symref(d, path, val) ==
    LET h == hold_for_update(Lockfile(path), d.locks, DirExists(d.gd, path))
        r == read_oid_or_symref(d.refs, path)
    IN IF h.err # "" THEN [d EXCEPT !.err = h.err]
       ELSE IF r.some /\ r.k = "sym"
            THEN update_symref([d EXCEPT !.locks = h.locks], r.path, val)
            ELSE write_lockfile(h.h, [d EXCEPT !.locks = h.locks], val)

\* Refs::update_head
update_head(d, val) == update_symref(d, HeadPath, val)

\* Refs::set_head
set_head(d, revision, oid) ==
    IF heads_path(revision) \in DOMAIN d.refs
    THEN update_ref_file(d, HeadPath, SymStr(heads_path(revision)))
    ELSE update_ref_file(d, HeadPath, OidStr(oid))

\* Refs::current_ref: the path of the last ref of the chain
RECURSIVE current_ref(_, _, _)
current_ref(files, source, fuel) ==
    LET r == read_oid_or_symref(files, source)
    IN IF r.some /\ r.k = "sym"
       THEN IF fuel = 0 THEN [path |-> source, loop |-> TRUE]
            ELSE current_ref(files, r.path, fuel - 1)
       ELSE [path |-> source, loop |-> FALSE]

\* Regex::is_match for a pattern without metacharacters
Contains(s, pat) == \E i \in 1..(Len(s) - Len(pat) + 1) : SubSeq(s, i, i + Len(pat) - 1) = pat

\* INVALID_FILENAME.matches(name).count() > 0; of the character class the
\* printable characters are listed
INVALID_FILENAME(name) ==
    \/ Len(name) >= 1 /\ SubSeq(name, 1, 1) = "."
    \/ Contains(name, "/.")
    \/ Contains(name, "..")
    \/ Len(name) >= 1 /\ SubSeq(name, Len(name), Len(name)) = "/"
    \/ Len(name) >= 5 /\ SubSeq(name, Len(name) - 4, Len(name)) = ".lock"
    \/ Contains(name, "@{")
    \/ \E c \in {" ", "*", ":", "?", "[", "\\", "^", "~"} : Contains(name, c)

\* Refs::create_branch.  File::create panics when the directory of the file does
\* not exist: no command creates a directory under refs/heads.
create_branch(d, branch_name, start_oid) ==
    LET path == heads_path(branch_name)
    IN IF INVALID_FILENAME(branch_name) THEN [d EXCEPT !.err = "invalid"]
       ELSE IF path \in DOMAIN d.refs THEN [d EXCEPT !.err = "exists"]
       ELSE IF ~DirExists(d.gd, path) \/ Contains(branch_name, "/") THEN [d EXCEPT !.err = "panic"]
       ELSE update_ref_file([d EXCEPT !.refs = MapPut(@, path, <<>>)], path, OidStr(start_oid))

\* Refs::delete_branch
delete_branch(d, branch_name) ==
    LET path == heads_path(branch_name)
        h == hold_for_update(Lockfile(path), d.locks, DirExists(d.gd, path))
        r == read_symref(d.refs, path, Cardinality(DOMAIN d.refs))
    IN IF h.err # "" THEN [d EXCEPT !.err = h.err]
       ELSE IF r.loop THEN [d EXCEPT !.err = "panic", !.locks = h.locks]
       ELSE IF r.some
            THEN LET rb == lock_rollback(h.h, h.locks)
                 IN [d EXCEPT !.err = rb.err, !.refs = MapDel(@, path), !.locks = rb.locks]
            ELSE [d EXCEPT !.err = "not found", !.locks = h.locks]

---------------------------------------------------------------------------
(* database: trees, tree entries, commits; tree_diff.rs; revision.rs *)

\* the names a directory entry can have
Names == {"a", "b", "c", "d"}

\* database::Entry::mode
db_entry_mode(mode) ==
    IF mode = TREE_MODE THEN TREE_MODE
    ELSE IF is_executable(mode) THEN EXECUTABLE_MODE ELSE REGULAR_MODE

\* Tree::build on the entries of the index.  A tree is kept as the map from the
\* paths of its files to [oid, mode]; its subtrees are the restrictions of the map.
TreeBuild(entries) == [p \in DOMAIN entries |-> [oid |-> entries[p].oid, mode |-> entries[p].mode]]

\* the tree object stored for the directory prefix: what identifies it (its OID)
SubTree(T, prefix) == [p \in {q \in DOMAIN T : IsStrictPrefix(prefix, q)} |-> T[p]]

NoEntry == [some |-> FALSE, mode |-> 0, oid |-> 0, sub |-> EmptyMap]

\* the TreeEntry a parsed tree has at a path: a blob entry, a tree entry, or none
EntryAt(T, path) ==
    IF path \in DOMAIN T
    THEN [some |-> TRUE, mode |-> db_entry_mode(T[path].mode), oid |-> T[path].oid, sub |-> EmptyMap]
    ELSE IF DOMAIN SubTree(T, path) # {}
         THEN [some |-> TRUE, mode |-> TREE_MODE, oid |-> 0, sub |-> SubTree(T, path)]
         ELSE NoEntry

\* TreeEntry::is_tree
is_tree(e) == e.mode = TREE_MODE

\* the keys of Tree.entries of the tree at prefix
ChildNames(T, prefix) == {n \in Names : EntryAt(T, Append(prefix, n)).some}

RECURSIVE compare_oids(_, _, _, _, _)
RECURSIVE detect_deletions(_, _, _)
RECURSIVE detect_additions(_, _, _)

\* TreeDiff::compare_oids on tree OIDs; aSome / bSome: the OID is not None.
\* The result is the set of changes [path, old, new].
compare_oids(aSome, A, bSome, B, prefix) ==
    IF aSome = bSome /\ (aSome => SubTree(A, prefix) = SubTree(B, prefix)) THEN {}
    ELSE LET a_entries == IF aSome THEN A ELSE EmptyMap
             b_entries == IF bSome THEN B ELSE EmptyMap
         IN detect_deletions(a_entries, b_entries, prefix)
                \cup detect_additions(a_entries, b_entries, prefix)

\* TreeDiff::detect_deletions: the recorded pair holds the entries themselves,
\* also when one of them is a tree
detect_deletions(A, B, prefix) ==
    UNION { LET path == Append(prefix, name)
                entry == EntryAt(A, path)
                other == EntryAt(B, path)
                tree_b == other.some /\ is_tree(other)
                blob_b == other.some /\ ~is_tree(other)
                tree_a == is_tree(entry)
                blob_a == ~is_tree(entry)
            IN IF other.some /\ other = entry THEN {}
               ELSE compare_oids(tree_a, A, tree_b, B, path)
                       \cup (IF blob_a \/ blob_b
                             THEN {[path |-> path, old |-> entry, new |-> other]}
                             ELSE {})
          : name \in ChildNames(A, prefix) }

\* TreeDiff::detect_additions
detect_additions(A, B, prefix) ==
    UNION { LET path == Append(prefix, name)
                entry == EntryAt(B, path)
            IN IF is_tree(entry) THEN compare_oids(FALSE, A, TRUE, B, path)
               ELSE {[path |-> path, old |-> NoEntry, new |-> entry]}
          : name \in ChildNames(B, prefix) \ ChildNames(A, prefix) }

\* a commit object
Commit(tree, parent) == [tree |-> tree, parent |-> parent]

\* Checkout::tree_diff: compare_oids on two commit OIDs (TreeDiff::oid_to_tree
\* loads each commit's tree)
tree_diff(cs, a, b) ==
    IF a = b THEN {}
    ELSE detect_deletions(cs[a].tree, cs[b].tree, <<>>) \cup detect_additions(cs[a].tree, cs[b].tree, <<>>)

\* the objects of the store that are no commits
BlobObject == [tree |-> EmptyMap, parent |-> 0, type |-> "blob"]

TreeObject == [tree |-> EmptyMap, parent |-> 0, type |-> "tree"]

\* ParsedObject::obj_type
obj_type(object) == IF "type" \in DOMAIN object THEN object.type ELSE "commit"

\* the hexadecimal object id of the object stored n-th (the ids are cut to four
\* digits; the first two name the directory of the object)
oid_hex(oid) ==
    CASE oid = 1 -> "c1a0"
      [] oid = 2 -> "c1a1"
      [] oid = 3 -> "b3a0"
      [] oid = 4 -> "b3b0"
      [] OTHER -> "d500"

starts_with(o, name) == Len(name) <= Len(o) /\ SubSeq(o, 1, Len(name)) = name

\* Database::prefix_match: the stored ids of the directory the name leads to
\* that start with the name.  The slice [0..2] panics on a shorter name and
\* read_dir on a directory that does not exist; a name of two characters leads
\* to .git/objects itself, where no entry starts with it
prefix_match(cs, name) ==
    IF Len(name) < 2 THEN [err |-> "panic", oids |-> {}]
    ELSE IF Len(name) = 2 THEN [err |-> "", oids |-> {}]
    ELSE IF \A oid \in 1..Len(cs) : ~starts_with(oid_hex(oid), SubSeq(name, 1, 2))
         THEN [err |-> "panic", oids |-> {}]
    ELSE [err |-> "", oids |-> {oid \in 1..Len(cs) : starts_with(oid_hex(oid), name)}]

\* Revision::parse, on the revisions of the model: a name, or a name followed by
\* ^ or by ~1; @ is the alias of HEAD
parse(revision) ==
    LET n == Len(revision)
        alias(name) == IF name = "@" THEN "HEAD" ELSE name
    IN IF n >= 2 /\ SubSeq(revision, n, n) = "^"
       THEN [k |-> "parent", name |-> alias(SubSeq(revision, 1, n - 1))]
       ELSE IF n >= 3 /\ SubSeq(revision, n - 1, n) = "~1"
       THEN [k |-> "ancestor", name |-> alias(SubSeq(revision, 1, n - 2))]
       ELSE [k |-> "ref", name |-> alias(revision)]

\* Revision::read_ref: the ref of that name, else the one object whose id starts
\* with the name
revision_read_ref(files, cs, name) ==
    LET symref == read_ref(files, name)
        candidates == prefix_match(cs, name)
    IN IF symref.loop THEN [err |-> "panic", some |-> FALSE, oid |-> 0]
       ELSE IF symref.some THEN [err |-> "", some |-> TRUE, oid |-> symref.oid]
       ELSE IF candidates.err # "" THEN [err |-> "panic", some |-> FALSE, oid |-> 0]
       ELSE IF Cardinality(candidates.oids) = 1
            THEN [err |-> "", some |-> TRUE, oid |-> CHOOSE oid \in candidates.oids : TRUE]
            ELSE [err |-> "", some |-> FALSE, oid |-> 0]

\* the message Revision::load_commit records for an object that is no commit
not_a_commit(cs, oid) == "object " \o oid_hex(oid) \o " is a " \o obj_type(cs[oid]) \o ", not a commit"

\* Revision::load_commit that takes every stored object for a commit
load_commit_any(cs, oid) ==
    IF oid \notin 1..Len(cs) THEN [err |-> "panic", some |-> FALSE, errors |-> <<>>]
    ELSE [err |-> "", some |-> TRUE, errors |-> <<>>]

\* Revision::load_commit: Database::load panics on an id that is not stored
load_commit(cs, oid) ==
    IF oid \notin 1..Len(cs) THEN [err |-> "panic", some |-> FALSE, errors |-> <<>>]
    ELSE IF obj_type(cs[oid]) = "commit" THEN [err |-> "", some |-> TRUE, errors |-> <<>>]
    ELSE [err |-> "", some |-> FALSE, errors |-> <<not_a_commit(cs, oid)>>]

\* Revision::resolve on what resolve_query returned: a commit is the result,
\* else the errors are
resolve_commit(query, commit, errors) ==
    IF query.some /\ commit.err # "" THEN [err |-> "panic", oid |-> 0]
    ELSE IF query.some /\ commit.some THEN [err |-> "", oid |-> query.oid]
    ELSE IF errors \o commit.errors # <<>> THEN [err |-> (errors \o commit.errors)[1], oid |-> 0]
    ELSE [err |-> "unresolved", oid |-> 0]

\* Revision::resolve_query for Rev::Parent and Rev::Ancestor with n = 1, given
\* what the inner revision resolved to and load_commit of it
resolve_parent(cs, k, base, inner) ==
    LET parent == IF inner.some THEN cs[base.oid].parent ELSE 0
    IN IF k = "parent" THEN [some |-> parent # 0, oid |-> parent]
       ELSE [some |-> TRUE, oid |-> IF parent # 0 THEN parent ELSE base.oid]

\* the object to hand to load_commit: none is loaded when the query gave None
loaded(cs, query) ==
    IF query.some THEN load_commit(cs, query.oid) ELSE [err |-> "", some |-> FALSE, errors |-> <<>>]

resolve_inner(cs, k, base, inner) ==
    IF ~base.some \/ inner.err # "" THEN [err |-> "panic", oid |-> 0]
    ELSE resolve_commit(resolve_parent(cs, k, base, inner),
                        loaded(cs, resolve_parent(cs, k, base, inner)), inner.errors)

resolve_base(cs, k, base) ==
    IF base.err # "" THEN [err |-> "panic", oid |-> 0]
    ELSE IF k = "ref" THEN resolve_commit(base, loaded(cs, base), <<>>)
    ELSE resolve_inner(cs, k, base, loaded(cs, base))

\* Revision::resolve.  The outcome is "" with the OID, "panic" (an expect on
\* None, a load of an id that is not stored), the first message of the errors
\* returned, or "unresolved" when there is no message
resolve(files, cs, revision) ==
    resolve_base(cs, parse(revision).k, revision_read_ref(files, cs, parse(revision).name))

---------------------------------------------------------------------------
(* workspace.rs: the working tree *)

\* every blob of the model has the same length, so that a content change is
\* found by hashing the file and not already by stat_match
BlobSize(data) == 1

\* the proper ancestors of a path, the root excluded
Ancestors(path) == {SubSeq(path, 1, i) : i \in 1..(Len(path) - 1)}

ParentIsDir(w, path) == Len(path) = 1 \/ w[SubSeq(path, 1, Len(path) - 1)].k = "dir"

\* the entries of the directory path (the root is <<>>)
Children(w, path) == {q \in AllPaths : Len(q) = Len(path) + 1 /\ IsPrefix(path, q) /\ w[q].k # "none"}

\* Workspace::stat_file: the metadata of the node at a path (fails when there is none)
stat_file(w, path) == [mode |-> 32768 + w[path].perm, size |-> BlobSize(w[path].data)]

\* Workspace::list_files
RECURSIVE list_files(_, _)
list_files(w, path) ==
    IF path # <<>> /\ w[path].k = "file" THEN {path}
    ELSE UNION {list_files(w, q) : q \in Children(w, path)}

\* Workspace::remove_file_or_dir: remove_dir_all, remove_file, or nothing
remove_file_or_dir(w, path) ==
    [q \in AllPaths |-> IF q = path \/ IsStrictPrefix(path, q) THEN NoFile ELSE w[q]]

\* rmdir that also removes a directory which still has entries
remove_directory_all(w, path) == IF w[path].k = "dir" THEN remove_file_or_dir(w, path) ELSE w

\* Workspace::remove_directory, its error ignored by the caller: rmdir of an empty directory
remove_directory(w, path) ==
    IF w[path].k = "dir" /\ Children(w, path) = {} THEN [w EXCEPT ![path] = NoFile] ELSE w

\* Workspace::make_directory
make_directory(w, path) ==
    IF w[path].k = "dir" THEN [err |-> "", ws |-> w]
    ELSE IF ParentIsDir(w, path) THEN [err |-> "", ws |-> [w EXCEPT ![path] = DirNode]]
    ELSE [err |-> "NotFound", ws |-> w]

\* the order of paths in a BTreeSet<PathBuf>: by components
NameRank(n) == CASE n = "a" -> 1 [] n = "b" -> 2 [] n = "c" -> 3 [] OTHER -> 4

RECURSIVE PathLess(_, _)
PathLess(p, q) ==
    IF p = <<>> THEN q # <<>>
    ELSE IF q = <<>> THEN FALSE
    ELSE IF p[1] # q[1] THEN NameRank(p[1]) < NameRank(q[1])
    ELSE PathLess(Tail(p), Tail(q))

RECURSIVE SortPaths(_)
SortPaths(S) ==
    IF S = {} THEN <<>>
    ELSE LET m == CHOOSE x \in S : \A y \in S \ {x} : PathLess(x, y)
         IN <<m>> \o SortPaths(S \ {m})

Reverse(s) == [i \in 1..Len(s) |-> s[Len(s) + 1 - i]]

\* the changes of a set in the order ord lists their paths (a HashMap's iteration order)
OrderBy(S, ord) ==
    LET sel == SelectSeq(ord, LAMBDA p : \E c \in S : c.path = p)
    IN [i \in 1..Len(sel) |-> CHOOSE c \in S : c.path = sel[i]]

\* Workspace::apply_change_list: the changes of one action, in list order; the
\* first error ends the list
RECURSIVE apply_change_list(_, _, _, _)
apply_change_list(w, list, i, action) ==
    IF i > Len(list) THEN [err |-> "", ws |-> w]
    ELSE LET path == list[i].path
             entry == list[i].new
             w1 == remove_file_or_dir(w, path)
             w2 == [w1 EXCEPT ![path] = IF entry.mode # TREE_MODE
                                         THEN FileNode(entry.oid, entry.mode - 32768)
                                         ELSE FileNode(0, 420)]
         IN IF action = "Delete" THEN apply_change_list(w1, list, i + 1, action)
            ELSE IF ~ParentIsDir(w1, path) THEN [err |-> "NotADirectory", ws |-> w1]
            ELSE apply_change_list(w2, list, i + 1, action)

RECURSIVE RemoveDirs(_, _, _)
RemoveDirs(w, dirs, i) ==
    IF i > Len(dirs) THEN w ELSE RemoveDirs(remove_directory(w, dirs[i]), dirs, i + 1)

RECURSIVE MakeDirs(_, _, _)
MakeDirs(w, dirs, i) ==
    IF i > Len(dirs) THEN [err |-> "", ws |-> w]
    ELSE LET r == make_directory(w, dirs[i])
         IN IF r.err # "" THEN r ELSE MakeDirs(r.ws, dirs, i + 1)

\* Workspace::apply_migration; plan is [delete, update, create, rmdirs, mkdirs]
apply_migration(w, plan) ==
    LET d == apply_change_list(w, plan.delete, 1, "Delete")
        r == RemoveDirs(d.ws, Reverse(SortPaths(plan.rmdirs)), 1)
        m == MakeDirs(r, SortPaths(plan.mkdirs), 1)
        u == apply_change_list(m.ws, plan.update, 1, "Update")
        c == apply_change_list(u.ws, plan.create, 1, "Create")
    IN IF d.err # "" THEN d
       ELSE IF m.err # "" THEN m
       ELSE IF u.err # "" THEN u
       ELSE c

---------------------------------------------------------------------------
(* repository: status comparisons and the migration planner (migration.rs) *)

\* Entry::stat_match
stat_match(e, stat) == e.mode = entry_mode(stat.mode) /\ (e.size = 0 \/ e.size = stat.size)

\* Repository::compare_tree_to_index: a change is reported for an index entry
\* that has no tree item or differs from it in mode or OID
compare_tree_to_index(item, entry) ==
    IF ~entry.some THEN "NoChange"
    ELSE IF ~item.some THEN "Added"
    ELSE IF item.mode = entry.e.mode /\ item.oid = entry.e.oid THEN "NoChange"
    ELSE "Modified"

\* Repository::compare_index_to_workspace for a regular file of the workspace:
\* untracked without an entry; modified when the stat or the content hash differs
\* (a file whose timestamps match its entry holds the entry's content)
compare_index_to_workspace(entry, node) ==
    IF ~entry.some THEN "Untracked"
    ELSE IF ~stat_match(entry.e, [mode |-> 32768 + node.perm, size |-> BlobSize(node.data)]) THEN "Modified"
    ELSE IF entry.e.oid # node.data THEN "Modified"
    ELSE "NoChange"

\* Repository::is_trackable_path
RECURSIVE is_trackable_path(_, _, _)
is_trackable_path(ix, w, path) ==
    IF w[path].k = "file" THEN ~is_tracked(ix, path)
    ELSE \E q \in Children(w, path) : is_trackable_path(ix, w, q)

\* index_differs_from_trees that is content with a difference from one tree
index_differs_from_trees_either(entry, old_item, new_item) ==
    \/ compare_tree_to_index(old_item, entry) # "NoChange"
    \/ compare_tree_to_index(new_item, entry) # "NoChange"

\* Migration::index_differs_from_trees
index_differs_from_trees(entry, old_item, new_item) ==
    /\ compare_tree_to_index(old_item, entry) # "NoChange"
    /\ compare_tree_to_index(new_item, entry) # "NoChange"

\* get_error_type that does not look at the target tree's item
get_error_type_no_item(node, entry, item) ==
    IF entry.some THEN "StaleFile"
    ELSE IF node.k = "dir" THEN "StaleDirectory"
    ELSE "UntrackedOverwritten"

\* Migration::get_error_type
get_error_type(node, entry, item) ==
    IF entry.some THEN "StaleFile"
    ELSE IF node.k = "dir" THEN "StaleDirectory"
    ELSE IF item.some THEN "UntrackedOverwritten"
    ELSE "UntrackedRemoved"

\* Migration::untracked_parent: the nearest ancestor that is an untracked file
untracked_parent(ix, w, path) ==
    LET found == {p \in Ancestors(path) : w[p].k = "file" /\ is_trackable_path(ix, w, p)}
    IN IF found = {} THEN [some |-> FALSE, path |-> <<>>]
       ELSE [some |-> TRUE, path |-> CHOOSE p \in found : \A q \in found : Len(q) <= Len(p)]

\* Migration::check_for_conflict: the conflicts (type, path) one change adds
check_for_conflict(ix, w, c) ==
    LET entry == entry_for_path(ix, c.path)
        node == w[c.path]
        error_type == get_error_type(node, entry, c.new)
        parent == untracked_parent(ix, w, c.path)
    IN IF index_differs_from_trees(entry, c.old, c.new) THEN {<<"StaleFile", c.path>>}
       ELSE IF node.k = "none"
            THEN IF parent.some
                 THEN {<<error_type, IF entry.some THEN c.path ELSE parent.path>>}
                 ELSE {}
       ELSE IF node.k = "file"
            THEN IF compare_index_to_workspace(entry, node) # "NoChange" THEN {<<error_type, c.path>>} ELSE {}
       ELSE IF is_trackable_path(ix, w, c.path) THEN {<<error_type, c.path>>} ELSE {}

\* MESSAGES: the header and the footer of each conflict type
MESSAGES(conflict_type) ==
    CASE conflict_type = "StaleFile" ->
           [header |-> "Your local changes to the following files would be overwritten by checkout:",
            footer |-> "Please commit your changes to stash them before you switch branches"]
      [] conflict_type = "StaleDirectory" ->
           [header |-> "Updating the following directories would lose untracekdd files in them:",
            footer |-> "\n"]
      [] conflict_type = "UntrackedOverwritten" ->
           [header |-> "The following untracked working tree files would be overwritten by checkout:",
            footer |-> "Please move or remove them before you switch branches"]
      [] conflict_type = "UntrackedRemoved" ->
           [header |-> "The following untracked working tree files would be removed by checkout:",
            footer |-> "Please commit your changes to stash them before you switch branches"]

ConflictTypes == {"StaleFile", "StaleDirectory", "UntrackedOverwritten", "UntrackedRemoved"}

\* Migration::collect_errors: one message per conflict type that has paths, as
\* header |-> (tab-indented paths, footer); the messages come in no fixed order
collect_errors(conflicts) ==
    LET used == {t \in ConflictTypes : \E c \in conflicts : c[1] = t}
    IN [header \in {MESSAGES(t).header : t \in used} |->
           LET t == CHOOSE x \in used : MESSAGES(x).header = header
           IN [paths |-> {c[2] : c \in {x \in conflicts : x[1] = t}}, footer |-> MESSAGES(t).footer]]

\* Migration::record_change: the action of a change
ActionOf(c) == IF ~c.old.some THEN "Create" ELSE IF ~c.new.some THEN "Delete" ELSE "Update"

\* Migration::plan_changes: the conflicts and the change lists, rmdirs and mkdirs
plan_changes(ix, w, diff, ord) ==
    [conflicts |-> UNION {check_for_conflict(ix, w, c) : c \in diff},
     delete |-> OrderBy({c \in diff : ActionOf(c) = "Delete"}, ord),
     update |-> OrderBy({c \in diff : ActionOf(c) = "Update"}, ord),
     create |-> OrderBy({c \in diff : ActionOf(c) = "Create"}, ord),
     rmdirs |-> UNION {Ancestors(c.path) : c \in {x \in diff : ActionOf(x) = "Delete"}},
     mkdirs |-> UNION {Ancestors(c.path) : c \in {x \in diff : ActionOf(x) # "Delete"}}]

\* Migration::update_index, second loop: index.add of each created or updated path
RECURSIVE AddChanges(_, _, _, _)
AddChanges(ix, w, list, i) ==
    IF i > Len(list) THEN ix
    ELSE AddChanges(index_add(ix, list[i].path, list[i].new.oid, stat_file(w, list[i].path)), w, list, i + 1)

RECURSIVE RemoveChanges(_, _, _)
RemoveChanges(ix, list, i) ==
    IF i > Len(list) THEN ix ELSE RemoveChanges(index_remove(ix, list[i].path), list, i + 1)

\* Migration::update_index
update_index(ix, w, plan) ==
    AddChanges(AddChanges(RemoveChanges(ix, plan.delete, 1), w, plan.create, 1), w, plan.update, 1)

\* apply_changes that looks at the planning errors only after the workspace update
apply_changes_late_check(ix, w, diff, ord) ==
    LET plan == plan_changes(ix, w, diff, ord)
        m == apply_migration(w, plan)
    IN IF plan.conflicts # {} THEN [err |-> "conflict", ws |-> m.ws, index |-> ix, errors |-> collect_errors(plan.conflicts)]
       ELSE IF m.err # "" THEN [err |-> "workspace", ws |-> m.ws, index |-> ix, errors |-> EmptyMap]
       ELSE [err |-> "", ws |-> m.ws, index |-> update_index(ix, m.ws, plan), errors |-> EmptyMap]

\* Migration::apply_changes
apply_changes(ix, w, diff, ord) ==
    LET plan == plan_changes(ix, w, diff, ord)
        m == apply_migration(w, plan)
    IN IF plan.conflicts # {} THEN [err |-> "conflict", ws |-> w, index |-> ix, errors |-> collect_errors(plan.conflicts)]
       ELSE IF m.err # "" THEN [err |-> "workspace", ws |-> m.ws, index |-> ix, errors |-> EmptyMap]
       ELSE [err |-> "", ws |-> m.ws, index |-> update_index(ix, m.ws, plan), errors |-> EmptyMap]

---------------------------------------------------------------------------
(* The commands, run one at a time in a working directory *)

IndexPath == <<"index">>

\* Index::load: the entries of .git/index, each stored; no file, no entries
index_load(file) ==
    IF file.present THEN StoreAll(NewIndex, file.entries, DOMAIN file.entries) ELSE NewIndex

\* Index::load_for_update: the lock on .git/index is taken before the file is read
load_for_update(gd, lks) == hold_for_update(Lockfile(IndexPath), lks, DirExists(gd, IndexPath))

\* Index::write_updates: rollback when nothing changed, else the entries are
\* written to the lock file, which is renamed over .git/index
write_updates(ix, h, lks, file) ==
    IF ~ix.changed
    THEN [file |-> file, locks |-> lock_rollback(h, lks).locks]
    ELSE [file |-> [present |-> TRUE, entries |-> ix.entries], locks |-> MapDel(lks, h.lock_path)]

\* the working tree holds exactly the files of a tree (with its modes) and the
\* directories leading to them: nothing for the status scan to report
WorkspaceIs(w, T) ==
    \A p \in AllPaths :
        IF p \in DOMAIN T
        THEN w[p].k = "file" /\ w[p].data = T[p].oid /\ entry_mode(32768 + w[p].perm) = T[p].mode
        ELSE IF \E q \in DOMAIN T : IsStrictPrefix(p, q) THEN w[p].k = "dir"
        ELSE w[p].k = "none"

\* the index file holds exactly the entries of a tree
IndexIs(file, T) ==
    /\ DOMAIN file.entries = DOMAIN T
    /\ \A p \in DOMAIN T : file.entries[p].oid = T[p].oid /\ file.entries[p].mode = T[p].mode

\* rug init
InitCmd ==
    LET d == update_head(Disk("full", refs, locks), SymStr(heads_path(DEFAULT_BRANCH)))
    IN /\ gitdir' = "full"
       /\ refs' = d.refs
       /\ locks' = d.locks
       /\ result' = Res("init", d.err)
       /\ UNCHANGED <<ws, indexFile, commits, edits, index, lk, tdata>>

\* the user writes a file (creating the directories above it) and sets its mode
UserWrite(path, data, perm) ==
    /\ edits < MaxEdits
    /\ ws[path].k # "dir"
    /\ \A p \in Ancestors(path) : ws[p].k # "file"
    /\ ws' = [q \in AllPaths |-> IF q = path THEN FileNode(data, perm)
                                 ELSE IF q \in Ancestors(path) THEN DirNode ELSE ws[q]]
    /\ edits' = edits + 1
    /\ result' = Res("write", "")
    /\ UNCHANGED <<gitdir, indexFile, locks, refs, commits, index, lk, tdata>>

\* the user removes a file or a directory with all it holds
UserDelete(path) ==
    /\ edits < MaxEdits
    /\ ws[path].k # "none"
    /\ ws' = remove_file_or_dir(ws, path)
    /\ edits' = edits + 1
    /\ result' = Res("delete", "")
    /\ UNCHANGED <<gitdir, indexFile, locks, refs, commits, index, lk, tdata>>

\* the user removes a lock file an earlier command left behind, as the message
\* of a refused command tells them to
UserRemoveLock(lock_path) ==
    /\ lock_path \in DOMAIN locks
    /\ locks' = MapDel(locks, lock_path)
    /\ result' = Res("unlock", "")
    /\ UNCHANGED <<ws, gitdir, indexFile, refs, commits, edits, index, lk, tdata>>

\* add_to_index for each listed file: the blob is stored, the entry added
RECURSIVE AddFiles(_, _, _)
AddFiles(ix, w, files) ==
    IF files = {} THEN ix
    ELSE LET p == CHOOSE x \in files : \A y \in files \ {x} : PathLess(x, y)
         IN AddFiles(index_add(ix, p, w[p].data, stat_file(w, p)), w, files \ {p})

\* File::open for reading: the owner's read bit (0o400) of the file's mode
is_readable(perm) == (perm \div 256) % 2 = 1

\* rug add that returns from a failure without Index::release_lock.
AddCmd_keep_lock(path) ==
    LET h == load_for_update(gitdir, locks)
        ix == AddFiles(index_load(indexFile), ws, list_files(ws, path))
        wr == write_updates(ix, h.h, h.locks, indexFile)
    IN /\ IF h.err # ""
          THEN /\ result' = Res("add", h.err)
               /\ UNCHANGED <<indexFile, locks>>
          ELSE IF path # <<>> /\ ws[path].k = "none"
          THEN /\ result' = Res("add", "pathspec")
               /\ locks' = h.locks
               /\ UNCHANGED indexFile
          ELSE IF \E p \in list_files(ws, path) : ~is_readable(ws[p].perm)
          THEN /\ result' = Res("add", "PermissionDenied")
               /\ locks' = h.locks
               /\ UNCHANGED indexFile
          ELSE /\ result' = Res("add", "")
               /\ indexFile' = wr.file
               /\ locks' = wr.locks
       /\ UNCHANGED <<ws, gitdir, refs, commits, edits, index, lk, tdata>>

\* rug add <path>; <<>> is the working directory itself.  A path that does not
\* exist and a file that cannot be read end the command after release_lock; the
\* index is written after every file has been read.
AddCmd(path) ==
    LET h == load_for_update(gitdir, locks)
        ix == AddFiles(index_load(indexFile), ws, list_files(ws, path))
        wr == write_updates(ix, h.h, h.locks, indexFile)
    IN /\ IF h.err # ""
          THEN /\ result' = Res("add", h.err)
               /\ UNCHANGED <<indexFile, locks>>
          ELSE IF path # <<>> /\ ws[path].k = "none"
          THEN /\ result' = Res("add", "pathspec")
               /\ locks' = lock_rollback(h.h, h.locks).locks
               /\ UNCHANGED indexFile
          ELSE IF \E p \in list_files(ws, path) : ~is_readable(ws[p].perm)
          THEN /\ result' = Res("add", "PermissionDenied")
               /\ locks' = lock_rollback(h.h, h.locks).locks
               /\ UNCHANGED indexFile
          ELSE /\ result' = Res("add", "")
               /\ indexFile' = wr.file
               /\ locks' = wr.locks
       /\ UNCHANGED <<ws, gitdir, refs, commits, edits, index, lk, tdata>>

\* rug commit
CommitCmd ==
    LET ix == index_load(indexFile)
        gd == IF gitdir = "none" THEN "objects" ELSE gitdir
        parent == read_head(refs)
        oid == Len(commits) + 1
        d == update_head(Disk(gd, refs, locks), OidStr(oid))
    IN /\ Len(commits) < MaxCommits
       /\ gitdir' = gd
       /\ IF parent.loop
          THEN /\ result' = Res("commit", "panic")
               /\ UNCHANGED <<commits, refs, locks>>
          ELSE /\ commits' = Append(commits, Commit(TreeBuild(ix.entries), IF parent.some THEN parent.oid ELSE 0))
               /\ refs' = d.refs
               /\ locks' = d.locks
               /\ result' = [Res("commit", IF d.err # "" THEN "panic" ELSE "") EXCEPT !.to = oid]
       /\ UNCHANGED <<ws, indexFile, edits, index, lk, tdata>>


\* rug branch <name> [<start point>]; "" is no start point
BranchCreate(branch_name, start_point) ==
    LET head == read_head(refs)
        rev == resolve(refs, commits, start_point)
        start == IF start_point = ""
                 THEN [err |-> IF head.some THEN "" ELSE "panic", oid |-> head.oid]
                 ELSE rev
        d == create_branch(Disk(gitdir, refs, locks), branch_name, start.oid)
    IN /\ IF start.err # ""
          THEN /\ result' = Res("branch", start.err)
               /\ UNCHANGED <<refs, locks>>
          ELSE /\ result' = Res("branch", d.err)
               /\ refs' = d.refs
               /\ locks' = d.locks
       /\ UNCHANGED <<ws, gitdir, indexFile, commits, edits, index, lk, tdata>>

\* rug branch -D <name>
BranchDelete(branch_name) ==
    LET d == delete_branch(Disk(gitdir, refs, locks), branch_name)
    IN /\ result' = Res("branch -D", d.err)
       /\ refs' = d.refs
       /\ locks' = d.locks
       /\ UNCHANGED <<ws, gitdir, indexFile, commits, edits, index, lk, tdata>>

\* the orders in which a HashMap with the keys S can hand them out
RECURSIVE PathOrders(_)
PathOrders(S) ==
    IF S = {} THEN {<<>>}
    ELSE UNION {{<<x>> \o s : s \in PathOrders(S \ {x})} : x \in S}

\* Checkout::run after the migration: write_updates, then set_head
checkout_set_head(target, gd, file, files, moved, h, mig) ==
    LET wr == write_updates(mig.index, h.h, h.locks, file)
        d == set_head(Disk(gd, files, wr.locks), target, moved.to)
    IN [moved EXCEPT !.status = IF d.err # "" THEN "set_head" ELSE "",
                     !.indexFile = wr.file, !.refs = d.refs, !.locks = d.locks]

\* Checkout::run from apply_changes on; mig is what the migration returned
checkout_migrate(target, gd, file, files, locked, h, mig) ==
    IF mig.err # "" THEN [locked EXCEPT !.ws = mig.ws, !.status = mig.err, !.errors = mig.errors]
    ELSE checkout_set_head(target, gd, file, files, [locked EXCEPT !.ws = mig.ws], h, mig)

\* Checkout::run: what it leaves on disk and how it ends; ord lists the paths of
\* the tree diff in the order it is iterated
checkout_run(target, ord, w, gd, file, files, lks, cs) ==
    LET h == load_for_update(gd, lks)
        before == [status |-> "", ws |-> w, indexFile |-> file, refs |-> files, locks |-> lks, from |-> 0, to |-> 0,
                   errors |-> EmptyMap]
        locked == [before EXCEPT !.locks = h.locks]
        cur == current_ref(files, HeadPath, Cardinality(DOMAIN files))
        cur_oid == IF cur.loop \/ cur.path \notin DOMAIN files
                   THEN [some |-> FALSE, oid |-> 0, loop |-> cur.loop]
                   ELSE read_symref(files, cur.path, Cardinality(DOMAIN files))
        tgt == resolve(files, cs, target)
    IN IF h.err # "" THEN [before EXCEPT !.status = h.err]
       ELSE IF ~cur_oid.some THEN [locked EXCEPT !.status = "panic"]
       ELSE IF tgt.err # "" THEN [locked EXCEPT !.status = tgt.err]
       ELSE IF cur_oid.oid \notin 1..Len(cs) THEN [locked EXCEPT !.status = "panic"]
       ELSE checkout_migrate(target, gd, file, files,
                             [locked EXCEPT !.from = cur_oid.oid, !.to = tgt.oid], h,
                             apply_changes(index_load(file), w, tree_diff(cs, cur_oid.oid, tgt.oid), ord))

\* the paths the tree diff of a checkout would list
DiffPaths(target, files, cs) ==
    LET cur == read_head(files)
        tgt == resolve(files, cs, target)
    IN IF cur.some /\ cur.oid \in 1..Len(cs) /\ tgt.err = ""
       THEN {c.path : c \in tree_diff(cs, cur.oid, tgt.oid)}
       ELSE {}

\* the working tree and the index show nothing to commit against HEAD's commit
IsClean(w, file, files, cs) ==
    LET cur == read_head(files)
    IN /\ cur.some
       /\ cur.oid \in 1..Len(cs)
       /\ WorkspaceIs(w, cs[cur.oid].tree)
       /\ IndexIs(file, cs[cur.oid].tree)

\* rug checkout <target>; ord is the order in which the tree diff is iterated
CheckoutCmd(target) ==
    LET changed == DiffPaths(target, refs, commits)
        clean == IsClean(ws, indexFile, refs, commits)
    IN \E ord \in PathOrders(changed) :
          \E r \in {checkout_run(target, ord, ws, gitdir, indexFile, refs, locks, commits)} :
             /\ ws' = r.ws
             /\ indexFile' = r.indexFile
             /\ refs' = r.refs
             /\ locks' = r.locks
             /\ result' = [Res("checkout", r.status) EXCEPT !.from = r.from, !.to = r.to, !.clean = clean]
             /\ tdata' = r.errors
             /\ UNCHANGED <<gitdir, commits, edits, index, lk>>

---------------------------------------------------------------------------
(* Spec: any sequence of commands and user edits, from an empty directory *)

Init ==
    /\ RepoIdle
    /\ locks = EmptyMap
    /\ result = Res("start", "")
    /\ index = NewIndex
    /\ lk = [p \in Procs |-> Lockfile(<<"index">>)]
    /\ tdata = EmptyMap

\* the edits and arguments tried from the empty directory
SpecPaths == {<<"a">>, <<"a", "b">>}

Next ==
    \/ InitCmd
    \/ \E path \in SpecPaths : UserWrite(path, 1, 420)
    \/ \E lock_path \in DOMAIN locks : UserRemoveLock(lock_path)
    \/ AddCmd(<<>>)
    \/ CommitCmd
    \/ \E b \in Branches : BranchCreate(b, "")
    \/ \E b \in Branches : BranchDelete(b)
    \/ \E target \in {"topic", "@^"} : CheckoutCmd(target)

Spec == Init /\ [][Next]_vars

---------------------------------------------------------------------------
(* SpecCheckout: checkouts between two commits with any two trees.  The      *)
(* repository is the one init, add, commit and branch leave: HEAD is on      *)
(* master at the second commit, whose parent the branch topic names; the     *)
(* working tree and the index hold the second commit's tree; HEAD.lock is    *)
(* still there from the commit.                                              *)

\* what a file of a committed tree can be
FileAttrs == {[oid |-> 1, mode |-> REGULAR_MODE], [oid |-> 2, mode |-> EXECUTABLE_MODE]}

\* the sets of file paths a tree can have: none is a directory of another
TreePaths == {S \in SUBSET AllPaths : \A p \in S, q \in S : ~IsStrictPrefix(p, q)}

Trees == UNION {[S -> FileAttrs] : S \in TreePaths}

\* the working tree a checkout of the tree writes
WorkspaceOf(T) ==
    [p \in AllPaths |-> IF p \in DOMAIN T THEN FileNode(T[p].oid, T[p].mode - 32768)
                        ELSE IF \E q \in DOMAIN T : IsStrictPrefix(p, q) THEN DirNode
                        ELSE NoFile]

\* the index entries of the files of the tree
EntriesOf(T) ==
    [p \in DOMAIN T |-> NewEntry(p, T[p].oid, [mode |-> T[p].mode, size |-> BlobSize(T[p].oid)])]

InitCheckout ==
    \E T1 \in Trees, T2 \in Trees :
        /\ ws = WorkspaceOf(T1)
        /\ gitdir = "full"
        /\ indexFile = [present |-> TRUE, entries |-> EntriesOf(T1)]
        /\ refs = MapPut(MapPut(MapPut(EmptyMap,
                     HeadPath, <<SymStr(heads_path("master")), NL>>),
                     heads_path("master"), <<OidStr(2), NL>>),
                     heads_path("topic"), <<OidStr(1), NL>>)
        /\ commits = <<Commit(T2, 0), Commit(T1, 1)>>
        /\ edits = 0
        /\ locks = MapPut(EmptyMap, <<"HEAD.lock">>, <<>>)
        /\ result = Res("start", "")
        /\ index = NewIndex
        /\ lk = [p \in Procs |-> Lockfile(<<"index">>)]
        /\ tdata = EmptyMap

NextCheckout ==
    \/ \E path \in AllPaths, data \in Blobs : UserWrite(path, data, 420)
    \/ \E path \in AllPaths : UserDelete(path)
    \/ \E lock_path \in DOMAIN locks : UserRemoveLock(lock_path)
    \/ AddCmd(<<>>)
    \/ CheckoutCmd("topic")

SpecCheckout == InitCheckout /\ [][NextCheckout]_vars

---------------------------------------------------------------------------
(* index.rs: the bytes of .git/index, written through the lock file *)

\* a 64-bit quantity as its high and low 32-bit words
Wide(hi, lo) == [hi |-> hi, lo |-> lo]

\* `x as u32`: the low word
as_u32(v) == v.lo

\* i64::from(u32), u64::from(u32)
from_u32(x) == Wide(0, x)

MAX_PATH_SIZE == 4095

\* str::len of a path of one-letter names joined by "/"
PathLen(path) == IF path = <<>> THEN 0 ELSE 2 * Len(path) - 1

\* `path.len() as u16`: the low 16 bits of the length
as_u16(n) == n % 65536

\* the flags of Entry::new: cmp::min(path.len() as u16, MAX_PATH_SIZE)
entry_flags(len) == IF as_u16(len) < MAX_PATH_SIZE THEN as_u16(len) ELSE MAX_PATH_SIZE

\* Entry::new with every field of the metadata; ctime, mtime, dev, ino and size
\* are 64-bit, mode, uid and gid 32-bit
StatEntry(pathname, oid, metadata) ==
    [path |-> pathname, oid |-> oid,
     ctime |-> metadata.ctime, ctime_nsec |-> metadata.ctime_nsec,
     mtime |-> metadata.mtime, mtime_nsec |-> metadata.mtime_nsec,
     dev |-> metadata.dev, ino |-> metadata.ino,
     mode |-> entry_mode(metadata.mode), uid |-> metadata.uid, gid |-> metadata.gid,
     size |-> metadata.size,
     flags |-> entry_flags(PathLen(pathname))]

\* Entry::to_bytes: ten 32-bit integers, the OID, the flags, the path
to_bytes(e) ==
    [k |-> "entry",
     ints |-> <<as_u32(e.ctime), as_u32(e.ctime_nsec), as_u32(e.mtime), as_u32(e.mtime_nsec),
                as_u32(e.dev), as_u32(e.ino), e.mode, e.uid, e.gid, as_u32(e.size)>>,
     oid |-> e.oid, flags |-> e.flags, path |-> e.path]

\* Entry::parse
entry_parse(b) ==
    [path |-> b.path, oid |-> b.oid,
     ctime |-> from_u32(b.ints[1]), ctime_nsec |-> from_u32(b.ints[2]),
     mtime |-> from_u32(b.ints[3]), mtime_nsec |-> from_u32(b.ints[4]),
     dev |-> from_u32(b.ints[5]), ino |-> from_u32(b.ints[6]),
     mode |-> b.ints[7], uid |-> b.ints[8], gid |-> b.ints[9],
     size |-> from_u32(b.ints[10]),
     flags |-> b.flags]

\* the header write_updates writes: "DIRC", version 2, the number of entries
header_bytes(count) == [k |-> "hdr", signature |-> "DIRC", version |-> 2, count |-> count]

\* Checksum::write_checksum: the SHA-1 of everything written before it
checksum_bytes(written) == [k |-> "sum", digest |-> written]

\* write_updates that commits once the entries are written.
write_updates_next_no_checksum(ix, written) ==
    LET order == SortPaths(DOMAIN ix.entries)
        n == Len(written)
    IN IF ~ix.changed THEN [op |-> "rollback", data |-> header_bytes(0)]
       ELSE IF n = 0 THEN [op |-> "write", data |-> header_bytes(Len(order))]
       ELSE IF n <= Len(order) THEN [op |-> "write", data |-> to_bytes(ix.entries[order[n]])]
       ELSE [op |-> "commit", data |-> header_bytes(0)]

\* Index::write_updates, one system call at a time: what it does next when
\* `written` is in the lock file
write_updates_next(ix, written) ==
    LET order == SortPaths(DOMAIN ix.entries)
        n == Len(written)
    IN IF ~ix.changed THEN [op |-> "rollback", data |-> header_bytes(0)]
       ELSE IF n = 0 THEN [op |-> "write", data |-> header_bytes(Len(order))]
       ELSE IF n <= Len(order) THEN [op |-> "write", data |-> to_bytes(ix.entries[order[n]])]
       ELSE IF n = Len(order) + 1 THEN [op |-> "write", data |-> checksum_bytes(written)]
       ELSE [op |-> "commit", data |-> header_bytes(0)]

\* Index::read_entries: count entries are parsed and stored
RECURSIVE read_entries(_, _, _, _)
read_entries(ix, bytes, i, count) ==
    IF i > count THEN [err |-> "", index |-> ix]
    ELSE IF i + 1 > Len(bytes) \/ bytes[i + 1].k # "entry" THEN [err |-> "UnexpectedEof", index |-> ix]
    ELSE read_entries(store_entry(ix, entry_parse(bytes[i + 1])), bytes, i + 1, count)

\* Index::load of the bytes of the file: read_header panics on a short or foreign
\* header, read_entries fails on a short file, verify_checksum on a wrong trailer
load_bytes(bytes) ==
    IF bytes = <<>> \/ bytes[1].k # "hdr" \/ bytes[1].signature # "DIRC" \/ bytes[1].version # 2
    THEN [err |-> "panic", index |-> NewIndex]
    ELSE LET r == read_entries(NewIndex, bytes, 1, bytes[1].count)
             last == bytes[1].count + 2
         IN IF r.err # "" THEN r
            ELSE IF last > Len(bytes) THEN [err |-> "UnexpectedEof", index |-> r.index]
            ELSE IF bytes[last] # checksum_bytes(SubSeq(bytes, 1, last - 1))
                 THEN [err |-> "Other", index |-> r.index]
                 ELSE [err |-> "", index |-> r.index]

\* Index::add with every field of the metadata
stat_add(ix, pathname, oid, metadata) ==
    LET entry == StatEntry(pathname, oid, metadata)
    IN [store_entry(discard_conflicts(ix, entry.path), entry) EXCEPT !.changed = TRUE]

---------------------------------------------------------------------------
(* SpecWrite: processes that load the index under its lock, stage files and  *)
(* write the index back one write at a time, and that can die at any point   *)

\* a small file; a file of 2^32 + 1 bytes; a file whose inode number is 2^32 + 7
Metadatas ==
    LET small == [ctime |-> Wide(0, 5), ctime_nsec |-> Wide(0, 0), mtime |-> Wide(0, 5),
                  mtime_nsec |-> Wide(0, 0), dev |-> Wide(0, 1), ino |-> Wide(0, 7),
                  mode |-> 32768 + 420, uid |-> 0, gid |-> 0, size |-> Wide(0, 1)]
    IN {small, [small EXCEPT !.size = Wide(1, 1)], [small EXCEPT !.ino = Wide(1, 7), !.mode = 32768 + 493]}

WritePaths == {<<"a">>, <<"a", "b">>, <<"a", "d">>}

InitWrite ==
    /\ RepoIdle
    /\ locks = EmptyMap
    /\ result = Res("start", "")
    /\ index = NewIndex
    /\ lk = [p \in Procs |-> Lockfile(IndexPath)]
    /\ tdata = EmptyMap

\* Index::load_for_update in process p; a failed load ends the process
LoadForUpdate(p) ==
    LET h == hold_for_update(lk[p], locks, TRUE)
        ld == IF IndexPath \in DOMAIN tdata THEN load_bytes(tdata[IndexPath])
              ELSE [err |-> "", index |-> NewIndex]
    IN /\ ~lk[p].held
       /\ IF h.err # ""
          THEN /\ result' = [Res("load", h.err) EXCEPT !.proc = p]
               /\ UNCHANGED <<locks, lk, index>>
          ELSE /\ locks' = h.locks
               /\ result' = [Res("load", ld.err) EXCEPT !.proc = p]
               /\ lk' = [lk EXCEPT ![p] = IF ld.err = "" THEN h.h ELSE Lockfile(IndexPath)]
               /\ index' = IF ld.err = "" THEN ld.index ELSE NewIndex
       /\ UNCHANGED <<ws, gitdir, indexFile, refs, commits, edits, tdata>>

\* Index::add in the process that holds the lock, before it starts to write
StageFile(p, path, metadata) ==
    /\ lk[p].held
    /\ locks[lk[p].lock_path] = <<>>
    /\ index' = stat_add(index, path, 1, metadata)
    /\ result' = [Res("add", "") EXCEPT !.proc = p]
    /\ UNCHANGED <<ws, gitdir, indexFile, locks, refs, commits, edits, lk, tdata>>

\* the next system call of Index::write_updates in process p; the process ends
\* with the commit or the rollback
WriteUpdatesStep(p) ==
    LET step == write_updates_next(index, locks[lk[p].lock_path])
        w == lock_write(lk[p], locks, step.data)
        c == lock_commit(lk[p], locks, tdata)
        r == lock_rollback(lk[p], locks)
    IN /\ lk[p].held
       /\ IF step.op = "write"
          THEN /\ locks' = w.locks
               /\ result' = [Res("write", "") EXCEPT !.proc = p]
               /\ UNCHANGED <<lk, tdata, index>>
          ELSE IF step.op = "commit"
          THEN /\ locks' = c.locks
               /\ tdata' = c.files
               /\ lk' = [lk EXCEPT ![p] = c.h]
               /\ index' = NewIndex
               /\ result' = [Res("write_updates", "") EXCEPT !.proc = p]
          ELSE /\ locks' = r.locks
               /\ lk' = [lk EXCEPT ![p] = r.h]
               /\ index' = NewIndex
               /\ result' = [Res("rollback", "") EXCEPT !.proc = p]
               /\ UNCHANGED tdata
       /\ UNCHANGED <<ws, gitdir, indexFile, refs, commits, edits>>

\* process p dies: its memory and its handle are gone, the lock file stays
Crash(p) ==
    /\ lk[p].held
    /\ lk' = [lk EXCEPT ![p] = Lockfile(IndexPath)]
    /\ index' = NewIndex
    /\ result' = [Res("crash", "") EXCEPT !.proc = p]
    /\ UNCHANGED <<ws, gitdir, indexFile, locks, refs, commits, edits, tdata>>

NextWrite ==
    \/ \E p \in Procs : LoadForUpdate(p)
    \/ \E p \in Procs, path \in WritePaths, metadata \in Metadatas : StageFile(p, path, metadata)
    \/ \E p \in Procs : WriteUpdatesStep(p)
    \/ \E p \in Procs : Crash(p)
    \/ \E lock_path \in DOMAIN locks : (\A p \in Procs : ~lk[p].held) /\ UserRemoveLock(lock_path)

SpecWrite == InitWrite /\ [][NextWrite]_vars

---------------------------------------------------------------------------
(* database/mod.rs: Database::store, one system call at a time (SpecStore) *)

\* the OIDs of the objects stored; they share their first two hex digits, and
\* so the directory objects/<xx>
StoreOids == {1, 2}

\* the names generate_temp_name can draw
TempNames == {"tmp_obj_1", "tmp_obj_2"}

\* the hex digits of an OID after the first two
hex_rest(oid) == IF oid = 1 THEN "01" ELSE "02"

\* Database::object_path
object_path(oid) == <<"objects", "xx", hex_rest(oid)>>

\* the path of a temporary file in the directory of the object
temp_path(name) == <<"objects", "xx", name>>

\* ZlibEncoder: the deflated content of the object with this OID
deflate(oid) == [z |-> oid, complete |-> TRUE]

\* what a write_all that has not finished has put in the file
partial(bytes) == [bytes EXCEPT !.complete = FALSE]

\* a process that is not inside write_object
Idle == [pc |-> "idle", oid |-> 0, temp |-> <<>>]

\* write_object without the check for an existing object.
write_object_step_no_check(st, files, oid, name) ==
    CASE st.pc = "idle" -> [err |-> "", done |-> FALSE, st |-> [pc |-> "checked", oid |-> oid, temp |-> <<>>], files |-> files]
      [] st.pc = "checked" ->
            IF temp_path(name) \in DOMAIN files
            THEN [err |-> "AlreadyExists", done |-> TRUE, st |-> Idle, files |-> files]
            ELSE [err |-> "", done |-> FALSE, st |-> [st EXCEPT !.pc = "created", !.temp = temp_path(name)],
                  files |-> MapPut(files, temp_path(name), [z |-> 0, complete |-> FALSE])]
      [] st.pc = "created" ->
            [err |-> "", done |-> FALSE, st |-> [st EXCEPT !.pc = "writing"],
             files |-> [files EXCEPT ![st.temp] = partial(deflate(st.oid))]]
      [] st.pc = "writing" ->
            [err |-> "", done |-> FALSE, st |-> [st EXCEPT !.pc = "written"],
             files |-> [files EXCEPT ![st.temp] = deflate(st.oid)]]
      [] OTHER ->
            [err |-> "", done |-> TRUE, st |-> Idle,
             files |-> MapPut(MapDel(files, st.temp), object_path(st.oid), files[st.temp])]

\* Database::write_object from where the process stands (st.pc): the check for
\* an existing object, create_new of the temporary file under the name drawn,
\* write_all in two parts, rename.  oid is the object a process at "idle" stores.
write_object_step(st, files, oid, name) ==
    CASE st.pc = "idle" ->
            IF object_path(oid) \in DOMAIN files
            THEN [err |-> "", done |-> TRUE, st |-> Idle, files |-> files]
            ELSE [err |-> "", done |-> FALSE, st |-> [pc |-> "checked", oid |-> oid, temp |-> <<>>], files |-> files]
      [] st.pc = "checked" ->
            IF temp_path(name) \in DOMAIN files
            THEN [err |-> "AlreadyExists", done |-> TRUE, st |-> Idle, files |-> files]
            ELSE [err |-> "", done |-> FALSE, st |-> [st EXCEPT !.pc = "created", !.temp = temp_path(name)],
                  files |-> MapPut(files, temp_path(name), [z |-> 0, complete |-> FALSE])]
      [] st.pc = "created" ->
            [err |-> "", done |-> FALSE, st |-> [st EXCEPT !.pc = "writing"],
             files |-> [files EXCEPT ![st.temp] = partial(deflate(st.oid))]]
      [] st.pc = "writing" ->
            [err |-> "", done |-> FALSE, st |-> [st EXCEPT !.pc = "written"],
             files |-> [files EXCEPT ![st.temp] = deflate(st.oid)]]
      [] OTHER ->
            [err |-> "", done |-> TRUE, st |-> Idle,
             files |-> MapPut(MapDel(files, st.temp), object_path(st.oid), files[st.temp])]

\* in SpecStore lk holds each process's position in write_object and tdata the
\* files under .git/objects
InitStore ==
    /\ RepoIdle
    /\ locks = EmptyMap
    /\ result = Res("start", "")
    /\ index = NewIndex
    /\ lk = [p \in Procs |-> Idle]
    /\ tdata = EmptyMap

\* the next system call of Database::store in process p; result.from = 1 when
\* the step is the check for an existing object, result.aux = 1 when the call
\* has returned
StoreStep(p, oid, name) ==
    LET r == write_object_step(lk[p], tdata, oid, name)
    IN /\ lk[p].pc = "idle" \/ oid = lk[p].oid
       /\ lk[p].pc = "checked" \/ name = "tmp_obj_1"
       /\ lk' = [lk EXCEPT ![p] = r.st]
       /\ tdata' = r.files
       /\ result' = [Res("store", r.err) EXCEPT !.proc = p, !.to = IF lk[p].pc = "idle" THEN oid ELSE lk[p].oid,
                                               !.from = IF lk[p].pc = "idle" THEN 1 ELSE 0,
                                               !.aux = IF r.done THEN 1 ELSE 0]
       /\ UNCHANGED <<ws, gitdir, indexFile, locks, refs, commits, edits, index>>

NextStore == \E p \in Procs, oid \in StoreOids, name \in TempNames : StoreStep(p, oid, name)

SpecStore == InitStore /\ [][NextStore]_vars

---------------------------------------------------------------------------
(* revision.rs: the revision grammar, on expressions given as token sequences (SpecRev) *)

MaxHistory == 3

MaxExprLen == 4

\* a revision expression is a sequence of these tokens
RevTokens == {"@", "^", "~", "1", "2"}

RevExprs == UNION {[1..n -> RevTokens] : n \in 1..MaxExprLen}

IsDigits(s) == s # <<>> /\ \A i \in 1..Len(s) : s[i] \in {"1", "2"}

\* i32::from_str_radix(s, 10)
RECURSIVE from_str_radix(_)
from_str_radix(s) ==
    IF s = <<>> THEN 0
    ELSE 10 * from_str_radix(SubSeq(s, 1, Len(s) - 1)) + (IF s[Len(s)] = "1" THEN 1 ELSE 2)

\* where the regex ANCESTOR, ^(.+)~(\d+)$, splits the expression: the index of
\* the "~" that only digits follow, 0 when the expression does not match
AncestorSplit(s) ==
    LET at == {i \in 2..(Len(s) - 1) : s[i] = "~" /\ IsDigits(SubSeq(s, i + 1, Len(s)))}
    IN IF at = {} THEN 0 ELSE CHOOSE i \in at : TRUE

\* Revision::is_valid_ref on the tokens of the model, and the REF_ALIASES lookup
is_valid_ref(s) == \A i \in 1..Len(s) : s[i] \notin {"^", "~"}

RefName(s) == IF s = <<"@">> THEN "HEAD" ELSE "other"

\* Revision::parse: Parent, Ancestor, Ref, None ("none"), or the panic of an
\* expect on an inner None
RECURSIVE parse_expr(_)
parse_expr(s) ==
    IF Len(s) >= 2 /\ s[Len(s)] = "^"
    THEN LET rev == parse_expr(SubSeq(s, 1, Len(s) - 1))
         IN IF rev.k \in {"none", "panic"} THEN [k |-> "panic"] ELSE [k |-> "parent", rev |-> rev]
    ELSE IF AncestorSplit(s) # 0
    THEN LET rev == parse_expr(SubSeq(s, 1, AncestorSplit(s) - 1))
         IN IF rev.k \in {"none", "panic"} THEN [k |-> "panic"]
            ELSE [k |-> "ancestor", rev |-> rev, n |-> from_str_radix(SubSeq(s, AncestorSplit(s) + 1, Len(s)))]
    ELSE IF is_valid_ref(s) THEN [k |-> "ref", name |-> RefName(s)]
    ELSE [k |-> "none"]

\* Revision::commit_parent: Database::load panics on an object that is not stored
commit_parent(cs, oid) ==
    IF oid \notin 1..Len(cs) THEN [err |-> "panic", some |-> FALSE, oid |-> 0]
    ELSE [err |-> "", some |-> cs[oid].parent # 0, oid |-> cs[oid].parent]

\* the for loop of Rev::Ancestor that stops at a commit without a parent
RECURSIVE ancestor_loop_break(_, _, _)
ancestor_loop_break(cs, oid, n) ==
    IF n = 0 THEN [err |-> "", some |-> TRUE, oid |-> oid]
    ELSE LET p == commit_parent(cs, oid)
         IN IF p.err # "" THEN p
            ELSE IF p.some THEN ancestor_loop_break(cs, p.oid, n - 1)
            ELSE [err |-> "", some |-> TRUE, oid |-> oid]

\* Revision::resolve_query
RECURSIVE resolve_query(_, _, _)
resolve_query(files, cs, query) ==
    IF query.k = "ref"
    THEN LET r == read_ref(files, query.name)
         IN IF r.loop \/ ~r.some THEN [err |-> "panic", some |-> FALSE, oid |-> 0]
            ELSE [err |-> "", some |-> TRUE, oid |-> r.oid]
    ELSE LET inner == resolve_query(files, cs, query.rev)
         IN IF inner.err # "" \/ ~inner.some THEN [err |-> "panic", some |-> FALSE, oid |-> 0]
            ELSE IF query.k = "parent" THEN commit_parent(cs, inner.oid)
            ELSE ancestor_loop_break(cs, inner.oid, query.n)

\* Revision::new and Revision::resolve on an expression
resolve_expr(files, cs, s) ==
    LET query == parse_expr(s)
        r == resolve_query(files, cs, query)
    IN IF query.k \in {"none", "panic"} \/ r.err # "" THEN [err |-> "panic", oid |-> 0]
       ELSE IF ~r.some THEN [err |-> "unresolved", oid |-> 0]
       ELSE IF r.oid \notin 1..Len(cs) THEN [err |-> "panic", oid |-> 0]
       ELSE [err |-> "", oid |-> r.oid]

\* a repository whose HEAD is on master, with a linear history of n commits
InitRev ==
    \E n \in 0..MaxHistory :
        /\ ws = [p \in AllPaths |-> NoFile]
        /\ gitdir = "full"
        /\ indexFile = NoIndexFile
        /\ refs = IF n = 0 THEN MapPut(EmptyMap, HeadPath, <<SymStr(heads_path("master")), NL>>)
                  ELSE MapPut(MapPut(EmptyMap, HeadPath, <<SymStr(heads_path("master")), NL>>),
                              heads_path("master"), <<OidStr(n), NL>>)
        /\ commits = [i \in 1..n |-> Commit(EmptyMap, i - 1)]
        /\ edits = 0
        /\ locks = EmptyMap
        /\ result = Res("start", "")
        /\ index = NewIndex
        /\ lk = [p \in Procs |-> Idle]
        /\ tdata = <<>>

\* in SpecRev tdata is the expression resolved last
ResolveRev(s) ==
    LET r == resolve_expr(refs, commits, s)
    IN /\ tdata' = s
       /\ result' = [Res("resolve", r.err) EXCEPT !.to = r.oid]
       /\ UNCHANGED <<ws, gitdir, indexFile, locks, refs, commits, edits, index, lk>>

NextRev == \E s \in RevExprs : ResolveRev(s)

SpecRev == InitRev /\ [][NextRev]_vars

---------------------------------------------------------------------------
(* refs.rs: create_branch and delete_branch on a repository with two commits (SpecBranch) *)

\* the branch names given to create_branch
BranchNames == {"topic", "new", "a/b", ".a", "a/.b", "a..b", "a/", "a.lock", "a@{b", "a~b", "a b"}

\* HEAD on master at the second commit, topic at the first
InitBranch ==
    /\ ws = [p \in AllPaths |-> NoFile]
    /\ gitdir = "full"
    /\ indexFile = NoIndexFile
    /\ refs = MapPut(MapPut(MapPut(EmptyMap,
                 HeadPath, <<SymStr(heads_path("master")), NL>>),
                 heads_path("master"), <<OidStr(2), NL>>),
                 heads_path("topic"), <<OidStr(1), NL>>)
    /\ commits = <<Commit(EmptyMap, 0), Commit(EmptyMap, 1)>>
    /\ edits = 0
    /\ locks = EmptyMap
    /\ result = Res("start", "")
    /\ index = NewIndex
    /\ lk = [p \in Procs |-> Lockfile(<<"index">>)]
    /\ tdata = ""

\* in SpecBranch tdata is the branch name of the last call and result.to the
\* OID given to create_branch or returned by delete_branch
RefsCreateBranch(branch_name, start_oid) ==
    \E d \in {create_branch(Disk(gitdir, refs, locks), branch_name, start_oid)} :
        /\ result' = [Res("create_branch", d.err) EXCEPT !.to = start_oid]
        /\ tdata' = branch_name
        /\ refs' = d.refs
        /\ locks' = d.locks
        /\ UNCHANGED <<ws, gitdir, indexFile, commits, edits, index, lk>>

RefsDeleteBranch(branch_name) ==
    \E d \in {delete_branch(Disk(gitdir, refs, locks), branch_name)} :
        /\ result' = [Res("delete_branch", d.err) EXCEPT
                        !.to = IF d.err = ""
                               THEN read_symref(refs, heads_path(branch_name), Cardinality(DOMAIN refs)).oid
                               ELSE 0]
        /\ tdata' = branch_name
        /\ refs' = d.refs
        /\ locks' = d.locks
        /\ UNCHANGED <<ws, gitdir, indexFile, commits, edits, index, lk>>

NextBranch ==
    \/ \E branch_name \in BranchNames, start_oid \in 1..2 : RefsCreateBranch(branch_name, start_oid)
    \/ \E branch_name \in {"topic", "new"} : RefsDeleteBranch(branch_name)
    \/ \E lock_path \in DOMAIN locks : UserRemoveLock(lock_path)

SpecBranch == InitBranch /\ [][NextBranch]_vars

---------------------------------------------------------------------------
(* commands/add.rs: add on files that are missing or unreadable (SpecAdd) *)

\* the mode make_unreadable gives a file
UNREADABLE == 36

AddPaths == {<<"a", "b">>, <<"a", "d">>}

\* an initialised repository; the working tree holds some of AddPaths, readable
\* or not, and an earlier process may have left .git/index.lock behind
InitAdd ==
    \E S \in SUBSET AddPaths, stale \in BOOLEAN :
        \E perm \in [S -> {420, UNREADABLE}] :
            /\ ws = [p \in AllPaths |-> IF p \in S THEN FileNode(1, perm[p])
                                        ELSE IF p = <<"a">> /\ S # {} THEN DirNode
                                        ELSE NoFile]
            /\ gitdir = "full"
            /\ indexFile = NoIndexFile
            /\ refs = MapPut(EmptyMap, HeadPath, <<SymStr(heads_path("master")), NL>>)
            /\ commits = <<>>
            /\ edits = 0
            /\ locks = IF stale THEN MapPut(EmptyMap, <<"index.lock">>, <<>>) ELSE EmptyMap
            /\ result = Res("start", "")
            /\ index = NewIndex
            /\ lk = [p \in Procs |-> Lockfile(<<"index">>)]
            /\ tdata = EmptyMap

NextAdd ==
    \/ \E path \in AddPaths \cup {<<>>, <<"a">>} : AddCmd(path)
    \/ \E path \in AddPaths, data \in Blobs, perm \in {420, UNREADABLE} : UserWrite(path, data, perm)
    \/ \E path \in AddPaths : UserDelete(path)
    \/ \E lock_path \in DOMAIN locks : UserRemoveLock(lock_path)

SpecAdd == InitAdd /\ [][NextAdd]_vars

---------------------------------------------------------------------------
(* commands/status.rs: the index entries checked against the working tree (SpecStatus) *)

\* the contents a file can have: 0 is the empty file, 1 and 2 have the same
\* length, 3 is longer
Contents == 0..3

ContentSize(data) == IF data = 0 THEN 0 ELSE IF data = 3 THEN 2 ELSE 1

\* the timestamps of a file: one set of times, and the four that differ from it
\* in one field
FileTimes ==
    {[ctime |-> 5 + t[1], ctime_nsec |-> t[2], mtime |-> 5 + t[3], mtime_nsec |-> t[4]] :
        t \in {<<0, 0, 0, 0>>, <<1, 0, 0, 0>>, <<0, 1, 0, 0>>, <<0, 0, 1, 0>>, <<0, 0, 0, 1>>}}

\* the files of SpecStatus carry their change and modification times
TimedFiles ==
    {[k |-> "file", data |-> data, perm |-> perm, ctime |-> t.ctime, ctime_nsec |-> t.ctime_nsec,
      mtime |-> t.mtime, mtime_nsec |-> t.mtime_nsec] : data \in Contents, perm \in Perms, t \in FileTimes}

StatusPath == <<"a">>

\* fs::metadata of a file of SpecStatus (all fields below 2^32)
fs_metadata(node) ==
    [ctime |-> node.ctime, ctime_nsec |-> node.ctime_nsec,
     mtime |-> node.mtime, mtime_nsec |-> node.mtime_nsec,
     dev |-> 1, ino |-> 7, mode |-> 32768 + node.perm, uid |-> 0, gid |-> 0,
     size |-> ContentSize(node.data)]

\* Entry::times_match
times_match(e, stat) ==
    /\ e.ctime = stat.ctime
    /\ e.ctime_nsec = stat.ctime_nsec
    /\ e.mtime = stat.mtime
    /\ e.mtime_nsec = stat.mtime_nsec

\* Entry::update_stat
update_stat(e, stat) ==
    [e EXCEPT !.ctime = stat.ctime, !.ctime_nsec = stat.ctime_nsec,
              !.mtime = stat.mtime, !.mtime_nsec = stat.mtime_nsec,
              !.dev = stat.dev, !.ino = stat.ino, !.mode = entry_mode(stat.mode),
              !.uid = stat.uid, !.gid = stat.gid, !.size = stat.size]

\* Index::update_entry_stat: the entry handed in is updated and the index marked
\* as changed; check_index_entries hands in a clone of the index's entry, so the
\* entries of the index keep their stat
update_entry_stat(ix, entry, stat) ==
    [ix |-> [ix EXCEPT !.changed = TRUE], entry |-> update_stat(entry, stat)]

\* Status::scan_workspace: the metadata of the tracked files
scan_workspace(ix, w) ==
    [p \in {q \in AllPaths : w[q].k = "file" /\ is_tracked(ix, q)} |-> fs_metadata(w[p])]

\* check_index_against_workspace that hashes the file whenever the stat matches.
check_index_against_workspace_no_fast_path(ix, entry, stats, w) ==
    IF entry.path \notin DOMAIN stats
    THEN [err |-> "", ix |-> ix, change |-> "Deleted", read |-> FALSE]
    ELSE IF ~stat_match(entry, stats[entry.path])
    THEN [err |-> "", ix |-> ix, change |-> "Modified", read |-> FALSE]
    ELSE IF ~is_readable(w[entry.path].perm)
    THEN [err |-> "panic", ix |-> ix, change |-> "", read |-> FALSE]
    ELSE IF entry.oid = w[entry.path].data
    THEN [err |-> "", ix |-> update_entry_stat(ix, entry, stats[entry.path]).ix, change |-> "", read |-> TRUE]
    ELSE [err |-> "", ix |-> ix, change |-> "Modified", read |-> TRUE]

\* Status::check_index_against_workspace: the change recorded for the entry
\* ("" for none), whether the file was read, and the index afterwards
check_index_against_workspace(ix, entry, stats, w) ==
    IF entry.path \notin DOMAIN stats
    THEN [err |-> "", ix |-> ix, change |-> "Deleted", read |-> FALSE]
    ELSE IF ~stat_match(entry, stats[entry.path])
    THEN [err |-> "", ix |-> ix, change |-> "Modified", read |-> FALSE]
    ELSE IF times_match(entry, stats[entry.path])
    THEN [err |-> "", ix |-> ix, change |-> "", read |-> FALSE]
    ELSE IF ~is_readable(w[entry.path].perm)
    THEN [err |-> "panic", ix |-> ix, change |-> "", read |-> FALSE]
    ELSE IF entry.oid = w[entry.path].data
    THEN [err |-> "", ix |-> update_entry_stat(ix, entry, stats[entry.path]).ix, change |-> "", read |-> TRUE]
    ELSE [err |-> "", ix |-> ix, change |-> "Modified", read |-> TRUE]

\* Status::check_index_entries over the entries todo, in path order: the index,
\* workspace_changes and the set of files read
RECURSIVE check_index_entries(_, _, _, _, _)
check_index_entries(ix, todo, stats, w, acc) ==
    IF todo = {} \/ acc.err # "" THEN [acc EXCEPT !.ix = ix]
    ELSE LET p == CHOOSE x \in todo : \A y \in todo \ {x} : PathLess(x, y)
             c == check_index_against_workspace(ix, ix.entries[p], stats, w)
         IN check_index_entries(c.ix, todo \ {p}, stats, w,
                [err |-> c.err, ix |-> c.ix,
                 changes |-> IF c.change = "" THEN acc.changes ELSE MapPut(acc.changes, p, c.change),
                 read |-> IF c.read THEN acc.read \cup {p} ELSE acc.read])

NoReport == [err |-> "", ix |-> NewIndex, changes |-> EmptyMap, read |-> {}]

\* what Status::print_results shows of the workspace changes
Report(r, ic, un) == [changes |-> r.changes, read |-> r.read, index_changes |-> ic, untracked |-> un]

InitStatus ==
    /\ ws \in [AllPaths -> {NoFile} \cup TimedFiles]
    /\ \A p \in AllPaths \ {StatusPath} : ws[p] = NoFile
    /\ gitdir = "full"
    /\ indexFile = NoIndexFile
    /\ refs = MapPut(EmptyMap, HeadPath, <<SymStr(heads_path("master")), NL>>)
    /\ commits = <<>>
    /\ edits = 0
    /\ locks = EmptyMap
    /\ result = Res("start", "")
    /\ index = NewIndex
    /\ lk = [p \in Procs |-> Lockfile(<<"index">>)]
    /\ tdata = Report(NoReport, EmptyMap, {})

\* the user writes, touches or changes the mode of the file
UserTouch(node) ==
    /\ ws' = [ws EXCEPT ![StatusPath] = node]
    /\ result' = Res("write", "")
    /\ UNCHANGED <<gitdir, indexFile, locks, refs, commits, edits, index, lk, tdata>>

UserUnlink ==
    /\ ws[StatusPath].k = "file"
    /\ ws' = [ws EXCEPT ![StatusPath] = NoFile]
    /\ result' = Res("delete", "")
    /\ UNCHANGED <<gitdir, indexFile, locks, refs, commits, edits, index, lk, tdata>>

\* rug add of the file: the entry takes the file's metadata and blob OID
AddStat ==
    LET h == load_for_update(gitdir, locks)
        ix == stat_add(index_load(indexFile), StatusPath, ws[StatusPath].data, fs_metadata(ws[StatusPath]))
        wr == write_updates(ix, h.h, h.locks, indexFile)
    IN /\ ws[StatusPath].k = "file"
       /\ h.err = ""
       /\ indexFile' = wr.file
       /\ locks' = wr.locks
       /\ result' = Res("add", "")
       /\ UNCHANGED <<ws, gitdir, refs, commits, edits, index, lk, tdata>>

\* Status::read_tree: the paths of the files of the tree, found by descending
\* into every entry that is a tree
RECURSIVE read_tree(_, _)
read_tree(T, prefix) ==
    UNION {IF is_tree(EntryAt(T, Append(prefix, name)))
           THEN read_tree(T, Append(prefix, name))
           ELSE {Append(prefix, name)} : name \in ChildNames(T, prefix)}

\* Status::load_head_tree: head_tree, the entry of every file of HEAD's tree; no
\* entries when HEAD resolves to nothing; Database::load panics on an OID that
\* is not stored
load_head_tree(files, cs) ==
    LET head == read_head(files)
    IN IF head.loop \/ (head.some /\ head.oid \notin 1..Len(cs)) THEN [err |-> "panic", tree |-> EmptyMap]
       ELSE IF ~head.some THEN [err |-> "", tree |-> EmptyMap]
       ELSE [err |-> "", tree |-> [p \in read_tree(cs[head.oid].tree, <<>>) |-> EntryAt(cs[head.oid].tree, p)]]

\* check_index_against_head_tree that compares the OIDs only.
check_index_against_head_tree_oid_only(entry, head_tree) ==
    IF entry.path \in DOMAIN head_tree
    THEN IF ~(head_tree[entry.path].oid = entry.oid) THEN "Modified" ELSE ""
    ELSE "Added"

\* Status::check_index_against_head_tree: the index change recorded for the entry
check_index_against_head_tree(entry, head_tree) ==
    IF entry.path \in DOMAIN head_tree
    THEN IF ~(head_tree[entry.path].mode = entry.mode /\ head_tree[entry.path].oid = entry.oid)
         THEN "Modified" ELSE ""
    ELSE "Added"

\* Status::collect_deleted_head_files
collect_deleted_head_files(ix, head_tree) == {p \in DOMAIN head_tree : ~is_tracked_path(ix, p)}

\* index_changes after check_index_entries and collect_deleted_head_files
index_changes(ix, head_tree) ==
    LET changed == {p \in DOMAIN ix.entries : check_index_against_head_tree(ix.entries[p], head_tree) # ""}
        deleted == collect_deleted_head_files(ix, head_tree)
    IN [p \in changed \cup deleted |->
            IF p \in deleted THEN "Deleted" ELSE check_index_against_head_tree(ix.entries[p], head_tree)]

\* Status::is_trackable_path
RECURSIVE status_is_trackable_path(_, _, _)
status_is_trackable_path(ix, w, path) ==
    IF w[path].k = "file" THEN ~is_tracked(ix, path)
    ELSE \E q \in Children(w, path) : status_is_trackable_path(ix, w, q)

\* scan_workspace that lists every path that is not tracked.
RECURSIVE scan_untracked_all(_, _, _)
scan_untracked_all(ix, w, prefix) ==
    UNION {IF is_tracked(ix, q)
           THEN IF w[q].k = "dir" THEN scan_untracked_all(ix, w, q) ELSE {}
           ELSE {[path |-> q, dir |-> w[q].k = "dir"]} : q \in Children(w, prefix)}

\* Status::scan_workspace: the untracked set; dir: the name is printed with a
\* trailing "/"
RECURSIVE scan_untracked(_, _, _)
scan_untracked(ix, w, prefix) ==
    UNION {IF is_tracked(ix, q)
           THEN IF w[q].k = "dir" THEN scan_untracked(ix, w, q) ELSE {}
           ELSE IF status_is_trackable_path(ix, w, q) THEN {[path |-> q, dir |-> w[q].k = "dir"]}
           ELSE {} : q \in Children(w, prefix)}

\* rug status: Status::run.  tdata is the report of the last status: the
\* workspace changes, the files it read, the index changes and the untracked paths
StatusCmd ==
    \E h \in {load_for_update(gitdir, locks)} :
        \E ix \in {index_load(indexFile)} :
            \E r \in {check_index_entries(ix, DOMAIN ix.entries, scan_workspace(ix, ws), ws, NoReport)} :
                \E head \in {load_head_tree(refs, commits)} :
                    \E wr \in {write_updates(r.ix, h.h, h.locks, indexFile)} :
                        /\ IF h.err # "" \/ r.err # "" \/ head.err # ""
                           THEN /\ result' = Res("status", "panic")
                                /\ locks' = h.locks
                                /\ UNCHANGED <<indexFile, tdata>>
                           ELSE /\ result' = Res("status", "")
                                /\ indexFile' = wr.file
                                /\ locks' = wr.locks
                                /\ tdata' = Report(r, index_changes(ix, head.tree), scan_untracked(ix, ws, <<>>))
                        /\ UNCHANGED <<ws, gitdir, refs, commits, edits, index, lk>>

NextStatus ==
    \/ \E node \in TimedFiles : UserTouch(node)
    \/ UserUnlink
    \/ AddStat
    \/ StatusCmd

SpecStatus == InitStatus /\ [][NextStatus]_vars

---------------------------------------------------------------------------
(* commands/status.rs: the report of a status for any HEAD tree, index and working tree (SpecReport) *)

\* what a file of a tree or of the index can be: two contents, two modes
ReportAttrs ==
    {[oid |-> 1, mode |-> REGULAR_MODE], [oid |-> 1, mode |-> EXECUTABLE_MODE], [oid |-> 2, mode |-> REGULAR_MODE]}

ReportTrees == UNION {[S -> ReportAttrs] : S \in TreePaths}

\* a file and a directory of the working tree
PlainFile ==
    [k |-> "file", data |-> 1, perm |-> 420, ctime |-> 5, ctime_nsec |-> 0, mtime |-> 5, mtime_nsec |-> 0]

\* the working trees: every entry lies in a directory
Workspaces ==
    {w \in [AllPaths -> {NoFile, DirNode, PlainFile}] :
        \A p \in AllPaths : w[p].k # "none" => \A q \in Ancestors(p) : w[q].k = "dir"}

\* one commit with any tree, any index, any working tree
InitReport ==
    \E T1 \in ReportTrees, T2 \in ReportTrees :
        /\ ws \in Workspaces
        /\ gitdir = "full"
        /\ indexFile = [present |-> TRUE,
                        entries |-> [p \in DOMAIN T1 |->
                            StatEntry(p, T1[p].oid, [fs_metadata(PlainFile) EXCEPT !.mode = T1[p].mode])]]
        /\ refs = MapPut(MapPut(EmptyMap, HeadPath, <<SymStr(heads_path("master")), NL>>),
                         heads_path("master"), <<OidStr(1), NL>>)
        /\ commits = <<Commit(T2, 0)>>
        /\ edits = 0
        /\ locks = EmptyMap
        /\ result = Res("start", "")
        /\ index = NewIndex
        /\ lk = [p \in Procs |-> Lockfile(<<"index">>)]
        /\ tdata = Report(NoReport, EmptyMap, {})

NextReport == StatusCmd

SpecReport == InitReport /\ [][NextReport]_vars

---------------------------------------------------------------------------
(* SpecPlan: one checkout of topic in a repository whose index and working
   tree have been changed since the commit HEAD names.  tdata is the error
   message of the last checkout (empty when it reported no conflict) *)

\* what is staged or lies in the working tree: a content with either mode
PlanAttrs == FileAttrs \cup {[oid |-> 1, mode |-> EXECUTABLE_MODE]}

\* the tree with the file at path added or replaced; what lies above or below
\* the path gives way, as it does in the working tree and in Index::add
PutFile(T, path, attr) ==
    [p \in {q \in DOMAIN T : ~IsStrictPrefix(q, path) /\ ~IsStrictPrefix(path, q)} \cup {path} |->
        IF p = path THEN attr ELSE T[p]]

\* the tree itself and the trees one change away from it: a file removed,
\* added or replaced
Variants(T) ==
    {T} \cup {[p \in DOMAIN T \ {path} |-> T[p]] : path \in DOMAIN T}
        \cup {PutFile(T, path, attr) : path \in AllPaths, attr \in PlanAttrs}

InitPlan ==
    \E T1 \in Trees, T2 \in Trees : \E I \in Variants(T1) : \E W \in Variants(I) :
        /\ ws = WorkspaceOf(W)
        /\ gitdir = "full"
        /\ indexFile = [present |-> TRUE, entries |-> EntriesOf(I)]
        /\ refs = MapPut(MapPut(MapPut(EmptyMap,
                     HeadPath, <<SymStr(heads_path("master")), NL>>),
                     heads_path("master"), <<OidStr(2), NL>>),
                     heads_path("topic"), <<OidStr(1), NL>>)
        /\ commits = <<Commit(T2, 0), Commit(T1, 1)>>
        /\ edits = 0
        /\ locks = EmptyMap
        /\ result = Res("start", "")
        /\ index = NewIndex
        /\ lk = [p \in Procs |-> Lockfile(<<"index">>)]
        /\ tdata = EmptyMap

NextPlan == CheckoutCmd("topic")

SpecPlan == InitPlan /\ [][NextPlan]_vars

---------------------------------------------------------------------------
(* SpecCommit: rug commit taken step by step, with a crash possible between
   any two steps.  tdata is the object store: the tree objects and the OIDs of
   the commit objects in .git/objects; commits is the commit every OID names;
   lk is where the running commit stands: the tree it built, the trees still
   to store and the OID of its commit *)

\* the tree object of the directory prefix of T: its entries, by their paths
\* below the directory (the object's content, which its OID names)
tree_object(T, prefix) ==
    [s \in {SubSeq(q, Len(prefix) + 1, Len(q)) : q \in {x \in DOMAIN T : IsPrefix(prefix, x)}} |-> T[prefix \o s]]

\* the directories of a tree, the root included
TreeDirs(T) == {<<>>} \cup UNION {Ancestors(p) : p \in DOMAIN T}

\* Tree::traverse with f called before the entries are visited
RECURSIVE traverse_parent_first(_, _)
traverse_parent_first(T, prefix) ==
    LET subtrees == SortPaths({Append(prefix, n) : n \in {x \in ChildNames(T, prefix) : is_tree(EntryAt(T, Append(prefix, x)))}})
        visit[i \in 0..Len(subtrees)] ==
            IF i = 0 THEN <<>> ELSE visit[i - 1] \o traverse_parent_first(T, subtrees[i])
    IN <<prefix>> \o visit[Len(subtrees)]

\* Tree::traverse: the directories in the order f is called on their trees, the
\* subtrees of a tree in name order before the tree itself
RECURSIVE traverse(_, _)
traverse(T, prefix) ==
    LET subtrees == SortPaths({Append(prefix, n) : n \in {x \in ChildNames(T, prefix) : is_tree(EntryAt(T, Append(prefix, x)))}})
        visit[i \in 0..Len(subtrees)] ==
            IF i = 0 THEN <<>> ELSE visit[i - 1] \o traverse(T, subtrees[i])
    IN visit[Len(subtrees)] \o <<prefix>>

NoCommitRun == [pc |-> "idle", tree |-> EmptyMap, todo |-> <<>>, oid |-> 0]

\* the trees that get staged: files of one content and mode
StageTrees ==
    UNION {[S -> {[oid |-> 1, mode |-> REGULAR_MODE]}] : S \in {X \in TreePaths : X = {} \/ <<"a", "d">> \in X}}

InitCommit ==
    \E T \in StageTrees :
        /\ ws = WorkspaceOf(T)
        /\ gitdir = "full"
        /\ indexFile = [present |-> TRUE, entries |-> EntriesOf(T)]
        /\ refs = MapPut(EmptyMap, HeadPath, <<SymStr(heads_path("master")), NL>>)
        /\ commits = <<>>
        /\ edits = 0
        /\ locks = EmptyMap
        /\ result = Res("start", "")
        /\ index = NewIndex
        /\ lk = NoCommitRun
        /\ tdata = [trees |-> {}, commits |-> {}]

\* rug add after an edit: the index holds another tree
UserStage(T) ==
    /\ lk.pc = "idle"
    /\ indexFile.entries # EntriesOf(T)
    /\ indexFile' = [present |-> TRUE, entries |-> EntriesOf(T)]
    /\ ws' = WorkspaceOf(T)
    /\ result' = Res("add", "")
    /\ UNCHANGED <<gitdir, locks, refs, commits, edits, index, lk, tdata>>

\* commit_command: the index is loaded and the tree built
CommitBuild ==
    /\ lk.pc = "idle"
    /\ Len(commits) < MaxCommits
    /\ \E T \in {TreeBuild(index_load(indexFile).entries)} :
          lk' = [pc |-> "trees", tree |-> T, todo |-> traverse(T, <<>>), oid |-> 0]
    /\ result' = Res("commit", "running")
    /\ UNCHANGED <<ws, gitdir, indexFile, locks, refs, commits, edits, index, tdata>>

\* root.traverse: database.store of the next tree
CommitStoreTree ==
    /\ lk.pc = "trees"
    /\ lk.todo # <<>>
    /\ tdata' = [tdata EXCEPT !.trees = @ \cup {tree_object(lk.tree, Head(lk.todo))}]
    /\ lk' = [lk EXCEPT !.todo = Tail(@)]
    /\ UNCHANGED <<ws, gitdir, indexFile, locks, refs, commits, result, edits, index>>

\* read_head, Commit::new and database.store of the commit
CommitStoreCommit ==
    /\ lk.pc = "trees"
    /\ lk.todo = <<>>
    /\ \E parent \in {read_head(refs)} :
          IF parent.loop
          THEN /\ lk' = NoCommitRun
               /\ result' = Res("commit", "panic")
               /\ UNCHANGED <<commits, tdata>>
          ELSE /\ commits' = Append(commits, Commit(lk.tree, IF parent.some THEN parent.oid ELSE 0))
               /\ tdata' = [tdata EXCEPT !.commits = @ \cup {Len(commits) + 1}]
               /\ lk' = [lk EXCEPT !.pc = "head", !.oid = Len(commits) + 1]
               /\ UNCHANGED result
    /\ UNCHANGED <<ws, gitdir, indexFile, locks, refs, edits, index>>

\* refs.update_head with the commit's OID
CommitUpdateHead ==
    /\ lk.pc = "head"
    /\ \E d \in {update_head(Disk(gitdir, refs, locks), OidStr(lk.oid))} :
          /\ refs' = d.refs
          /\ locks' = d.locks
          /\ result' = [Res("commit", IF d.err # "" THEN "panic" ELSE "") EXCEPT !.to = lk.oid]
    /\ lk' = NoCommitRun
    /\ UNCHANGED <<ws, gitdir, indexFile, commits, edits, index, tdata>>

\* the process is killed between two steps
CommitCrash ==
    /\ lk.pc # "idle"
    /\ lk' = NoCommitRun
    /\ result' = Res("commit", "crash")
    /\ UNCHANGED <<ws, gitdir, indexFile, locks, refs, commits, edits, index, tdata>>

\* the user removes a lock file an earlier commit left behind
CommitRemoveLock(lock_path) ==
    /\ lk.pc = "idle"
    /\ UserRemoveLock(lock_path)

NextCommit ==
    \/ \E T \in StageTrees : UserStage(T)
    \/ CommitBuild
    \/ CommitStoreTree
    \/ CommitStoreCommit
    \/ CommitUpdateHead
    \/ CommitCrash
    \/ \E lock_path \in DOMAIN locks : CommitRemoveLock(lock_path)

SpecCommit == InitCommit /\ [][NextCommit]_vars

---------------------------------------------------------------------------
(* SpecResolve: checkout and branch given the names of objects of every type.
   The store holds two commits, a blob and a tree *)

\* the revisions tried: ids and unique prefixes of the blob, the tree and the
\* commits, the prefix both commits share, a branch, HEAD, and parents
ResolveNames == {"b3a", "b3a0", "b3b", "b3a^", "b3b~1", "c1a", "c1a0", "c1a1^", "c1a1~1", "topic", "@"}

ResolveTrees == {T \in Trees : DOMAIN T \subseteq {<<"a", "d">>}}

InitResolve ==
    \E T1 \in ResolveTrees, T2 \in ResolveTrees :
        /\ ws = WorkspaceOf(T1)
        /\ gitdir = "full"
        /\ indexFile = [present |-> TRUE, entries |-> EntriesOf(T1)]
        /\ refs = MapPut(MapPut(MapPut(EmptyMap,
                     HeadPath, <<SymStr(heads_path("master")), NL>>),
                     heads_path("master"), <<OidStr(2), NL>>),
                     heads_path("topic"), <<OidStr(1), NL>>)
        /\ commits = <<Commit(T2, 0), Commit(T1, 1), BlobObject, TreeObject>>
        /\ edits = 0
        /\ locks = EmptyMap
        /\ result = Res("start", "")
        /\ index = NewIndex
        /\ lk = [p \in Procs |-> Lockfile(<<"index">>)]
        /\ tdata = EmptyMap

NextResolve ==
    \/ \E target \in ResolveNames : CheckoutCmd(target)
    \/ \E start_point \in ResolveNames : BranchCreate("new", start_point)
    \/ BranchDelete("new")
    \/ \E lock_path \in DOMAIN locks : UserRemoveLock(lock_path)

SpecResolve == InitResolve /\ [][NextResolve]_vars

---------------------------------------------------------------------------
(* SpecTree: Tree::to_string on one directory.  A name is the sequence of its
   bytes; lk is the tree (its entries by name) and tdata what to_string wrote *)

\* "a", "a.b", "a0" and "b": the bytes of '.', '0' and '/' are 46, 48 and 47
TreeNames == {<<97>>, <<97, 46, 98>>, <<97, 48>>, <<98>>}

\* the entries a name can have: a regular file, an executable, a subtree
TreeEntries ==
    {[mode |-> REGULAR_MODE, oid |-> 1], [mode |-> EXECUTABLE_MODE, oid |-> 2], [mode |-> TREE_MODE, oid |-> 3]}

\* the order of str: byte by byte, a proper prefix first
RECURSIVE str_less(_, _)
str_less(a, b) ==
    IF b = <<>> THEN FALSE
    ELSE IF a = <<>> THEN TRUE
    ELSE IF a[1] # b[1] THEN a[1] < b[1]
    ELSE str_less(Tail(a), Tail(b))

\* format!("{:o}", mode)
RECURSIVE octal(_)
octal(n) ==
    LET digit == SubSeq("01234567", (n % 8) + 1, (n % 8) + 1)
    IN IF n < 8 THEN digit ELSE octal(n \div 8) \o digit

\* the iteration of a BTreeMap with these keys
RECURSIVE btree_iter(_)
btree_iter(keys) ==
    IF keys = {} THEN <<>>
    ELSE LET first == CHOOSE k \in keys : \A other \in keys \ {k} : str_less(k, other)
         IN <<first>> \o btree_iter(keys \ {first})

\* Tree::to_string: "<mode in octal> <name>\0<oid>" of every entry, in the
\* order of the map
to_string(entries) ==
    LET keys == btree_iter(DOMAIN entries)
    IN [i \in 1..Len(keys) |->
           [mode |-> octal(db_entry_mode(entries[keys[i]].mode)), name |-> keys[i], oid |-> entries[keys[i]].oid]]

InitTree ==
    \E S \in SUBSET TreeNames :
        \E entries \in [S -> TreeEntries] :
            /\ RepoIdle
            /\ locks = EmptyMap
            /\ result = Res("start", "")
            /\ index = NewIndex
            /\ lk = entries
            /\ tdata = <<>>

\* Database::store of the tree: get_content serializes it
TreeStore ==
    /\ result.cmd = "start"
    /\ tdata' = to_string(lk)
    /\ result' = Res("store", "")
    /\ UNCHANGED <<ws, gitdir, indexFile, locks, refs, commits, edits, index, lk>>

NextTree == TreeStore

SpecTree == InitTree /\ [][NextTree]_vars

---------------------------------------------------------------------------
(* SpecDiff: Myers::diff on two line sequences.  lk holds the two inputs
   and tdata the edits diff returned *)

MaxLines == 3

LineTexts == {"x", "y", "z"}

\* lines: the texts numbered from 1
lines(texts) == [i \in 1..Len(texts) |-> [number |-> i, text |-> texts[i]]]

\* Option<Line>::None
NoLine == [number |-> 0, text |-> ""]

\* v.insert(k, x)
v_insert(v, k, x) == [kk \in DOMAIN v \cup {k} |-> IF kk = k THEN x ELSE v[kk]]

\* the test of shortest_edit and of backtrack: the step onto diagonal k came
\* from k + 1, downward
moved_down(v, k, d) == k = -d \/ (k # d /\ v[k - 1] < v[k + 1])

\* the while loop of shortest_edit: x after the diagonal of equal lines
RECURSIVE snake(_, _, _, _)
snake(a, b, x, y) ==
    IF x < Len(a) /\ y < Len(b) /\ a[x + 1].text = b[y + 1].text
    THEN snake(a, b, x + 1, y + 1)
    ELSE x

\* the x a round starts with on diagonal k
start_x(v, k, d) == IF moved_down(v, k, d) THEN v[k + 1] ELSE v[k - 1] + 1

\* the loop over k of one round, from k on
RECURSIVE round_from(_, _, _, _, _)
round_after(a, b, v, d, k, x) ==
    IF x >= Len(a) /\ x - k >= Len(b) THEN [v |-> v_insert(v, k, x), done |-> TRUE]
    ELSE IF k + 2 > d THEN [v |-> v_insert(v, k, x), done |-> FALSE]
    ELSE round_from(a, b, v_insert(v, k, x), d, k + 2)

round_from(a, b, v, d, k) ==
    round_after(a, b, v, d, k, snake(a, b, start_x(v, k, d), start_x(v, k, d) - k))

\* the loop over d, from d on
RECURSIVE shortest_from(_, _, _, _, _)
shortest_after(a, b, d, trace, round) ==
    IF round.done THEN trace
    ELSE IF d + 1 > Len(a) + Len(b) THEN <<>>
    ELSE shortest_from(a, b, round.v, d + 1, trace)

shortest_from(a, b, v, d, trace) ==
    shortest_after(a, b, d, Append(trace, v), round_from(a, b, v, d, -d))

shortest_edit(a, b) == shortest_from(a, b, (1 :> 0), 0, <<>>)

\* the while loop of backtrack: the diagonal steps from (x, y) back
RECURSIVE diagonal(_, _, _, _)
diagonal(x, y, prev_x, prev_y) ==
    IF x > prev_x /\ y > prev_y
    THEN <<(<<x - 1, y - 1, x, y>>)>> \o diagonal(x - 1, y - 1, prev_x, prev_y)
    ELSE <<>>

\* how many steps that loop makes
diagonal_len(x, y, prev_x, prev_y) == Len(diagonal(x, y, prev_x, prev_y))

\* the diagonal the step onto k came from
prev_k(v, k, d) == IF moved_down(v, k, d) THEN k + 1 ELSE k - 1

\* the loop of backtrack over the trace, from round d down
RECURSIVE backtrack_from(_, _, _, _, _)
backtrack_step(trace, d, x, y, seq, prev_x, prev_y) ==
    backtrack_from(trace, d - 1, prev_x, prev_y,
                   seq \o diagonal(x, y, prev_x, prev_y)
                       \o (IF d > 0
                           THEN <<(<<prev_x, prev_y,
                                    x - diagonal_len(x, y, prev_x, prev_y),
                                    y - diagonal_len(x, y, prev_x, prev_y)>>)>>
                           ELSE <<>>))

backtrack_from(trace, d, x, y, seq) ==
    IF d < 0 THEN seq
    ELSE backtrack_step(trace, d, x, y, seq,
                        trace[d + 1][prev_k(trace[d + 1], x - y, d)],
                        trace[d + 1][prev_k(trace[d + 1], x - y, d)] - prev_k(trace[d + 1], x - y, d))

backtrack_trace(a, b, trace) == backtrack_from(trace, Len(trace) - 1, Len(a), Len(b), <<>>)

backtrack(a, b) == backtrack_trace(a, b, shortest_edit(a, b))

\* Edit::new
Edit(edit_type, a_line, b_line) == [edit_type |-> edit_type, a_line |-> a_line, b_line |-> b_line]

\* the line diff takes at an index: to_usize panics below zero
line_at(ls, i) ==
    IF i < 0 THEN [number |-> 0, text |-> "panic"]
    ELSE IF i >= Len(ls) THEN NoLine
    ELSE ls[i + 1]

\* the edit diff pushes for one step of the backtrack
diff_edit(a, b, step) ==
    IF step[3] = step[1] THEN Edit("Ins", NoLine, line_at(b, step[2]))
    ELSE IF step[4] = step[2] THEN Edit("Del", line_at(a, step[1]), NoLine)
    ELSE Edit("Eql", line_at(a, step[1]), line_at(b, step[2]))

\* the edits left in the order of the backtrack
reverse_none(s) == s

\* diff.reverse()
reverse(s) == [i \in 1..Len(s) |-> s[Len(s) + 1 - i]]

diff_steps(a, b, seq) ==
    IF \E i \in 1..Len(seq) : seq[i][1] < 0 \/ seq[i][2] < 0
    THEN <<Edit("panic", NoLine, NoLine)>>
    ELSE reverse([i \in 1..Len(seq) |-> diff_edit(a, b, seq[i])])

\* Myers::diff
diff(a, b) == diff_steps(a, b, backtrack(a, b))

RECURSIVE TextsUpTo(_)
TextsUpTo(n) ==
    IF n = 0 THEN {<<>>}
    ELSE TextsUpTo(n - 1) \cup {Append(s, t) : s \in {u \in TextsUpTo(n - 1) : Len(u) = n - 1}, t \in LineTexts}

InitDiff ==
    \E ta \in TextsUpTo(MaxLines), tb \in TextsUpTo(MaxLines) :
        /\ RepoIdle
        /\ locks = EmptyMap
        /\ result = Res("start", "")
        /\ index = NewIndex
        /\ lk = [a |-> lines(ta), b |-> lines(tb)]
        /\ tdata = <<>>

\* Myers::new(a, b).diff()
DiffRun ==
    /\ result.cmd = "start"
    /\ tdata' = diff(lk.a, lk.b)
    /\ result' = Res("diff", "")
    /\ UNCHANGED <<ws, gitdir, indexFile, locks, refs, commits, edits, index, lk>>

NextDiff == DiffRun

SpecDiff == InitDiff /\ [][NextDiff]_vars

---------------------------------------------------------------------------
(* SpecMigrate: Migration::apply_changes after plan_changes returned Ok, one
   file system operation at a time.  lk is where the migration stands: the
   plan, the phase and the position in the list of the phase; index is the
   index in memory; tdata is the list of the operations done so far *)

\* the phases in the order of the code: Delete, rmdirs, mkdirs, Update, Create,
\* update_index; then returned Ok, or returned the error of an operation
PhaseOrder == <<"Delete", "Rmdir", "Mkdir", "Update", "Create", "Index", "Ok", "Err">>

\* the place of a phase in that order
phase_rank(ph) == CHOOSE i \in 1..Len(PhaseOrder) : PhaseOrder[i] = ph

\* what a phase iterates over: the paths, in its order
phase_list(plan, ph) ==
    CASE ph = "Delete" -> [i \in 1..Len(plan.delete) |-> plan.delete[i].path]
      [] ph = "Rmdir" -> Reverse(SortPaths(plan.rmdirs))
      [] ph = "Mkdir" -> SortPaths(plan.mkdirs)
      [] ph = "Update" -> [i \in 1..Len(plan.update) |-> plan.update[i].path]
      [] ph = "Create" -> [i \in 1..Len(plan.create) |-> plan.create[i].path]
      [] OTHER -> <<>>

\* the next operation from position i of phase ph on: a loop that has no
\* element left falls through to the next one
RECURSIVE position(_, _, _)
position(plan, ph, i) ==
    IF phase_rank(ph) >= phase_rank("Index") \/ i <= Len(phase_list(plan, ph)) THEN [ph |-> ph, i |-> i]
    ELSE position(plan, PhaseOrder[phase_rank(ph) + 1], 1)

\* the record of one operation: whether the directory the path lies in was
\* there when the file was opened, and what lies at the path afterwards
Operation(ph, path, parent, w, err) ==
    [op |-> ph, path |-> path, parent |-> parent, kind |-> w[path].k, err |-> err]

\* the migration after an operation at lk that gave r
migrate_step(r, path, parent) ==
    /\ ws' = r.ws
    /\ tdata' = Append(tdata, Operation(lk.ph, path, parent, r.ws, r.err))
    /\ lk' = IF r.err # "" THEN [lk EXCEPT !.ph = "Err"]
             ELSE [lk EXCEPT !.ph = position(lk.plan, lk.ph, lk.i + 1).ph,
                             !.i = position(lk.plan, lk.ph, lk.i + 1).i]
    /\ UNCHANGED <<gitdir, indexFile, locks, refs, commits, result, edits, index>>

InitMigrate ==
    \E T1 \in Trees, T2 \in Trees : \E W \in Variants(T1) :
        \E ord \in PathOrders({c.path : c \in tree_diff(<<Commit(T2, 0), Commit(T1, 1)>>, 2, 1)}) :
            \E plan \in {plan_changes(index_load([present |-> TRUE, entries |-> EntriesOf(T1)]), WorkspaceOf(W),
                                      tree_diff(<<Commit(T2, 0), Commit(T1, 1)>>, 2, 1), ord)} :
                /\ plan.conflicts = {}
                /\ ws = WorkspaceOf(W)
                /\ gitdir = "full"
                /\ indexFile = [present |-> TRUE, entries |-> EntriesOf(T1)]
                /\ refs = MapPut(MapPut(MapPut(EmptyMap,
                             HeadPath, <<SymStr(heads_path("master")), NL>>),
                             heads_path("master"), <<OidStr(2), NL>>),
                             heads_path("topic"), <<OidStr(1), NL>>)
                /\ commits = <<Commit(T2, 0), Commit(T1, 1)>>
                /\ edits = 0
                /\ locks = load_for_update("full", EmptyMap).locks
                /\ result = Res("checkout", "")
                /\ index = index_load(indexFile)
                /\ lk = [plan |-> plan, ph |-> position(plan, "Delete", 1).ph, i |-> position(plan, "Delete", 1).i]
                /\ tdata = <<>>

\* apply_change_list(Delete): remove_file_or_dir of one path
MigrateDelete ==
    /\ lk.ph = "Delete"
    /\ migrate_step(apply_change_list(ws, <<lk.plan.delete[lk.i]>>, 1, "Delete"), lk.plan.delete[lk.i].path, TRUE)

\* the rmdirs loop: remove_directory of one path, an error ignored
MigrateRmdir ==
    /\ lk.ph = "Rmdir"
    /\ migrate_step([err |-> "", ws |-> remove_directory(ws, phase_list(lk.plan, "Rmdir")[lk.i])],
                    phase_list(lk.plan, "Rmdir")[lk.i], TRUE)

\* the mkdirs loop: make_directory of one path
MigrateMkdir ==
    /\ lk.ph = "Mkdir"
    /\ migrate_step(make_directory(ws, phase_list(lk.plan, "Mkdir")[lk.i]),
                    phase_list(lk.plan, "Mkdir")[lk.i],
                    ParentIsDir(ws, phase_list(lk.plan, "Mkdir")[lk.i]))

\* apply_change_list(Update): one path removed and written
MigrateUpdate ==
    /\ lk.ph = "Update"
    /\ migrate_step(apply_change_list(ws, <<lk.plan.update[lk.i]>>, 1, "Update"), lk.plan.update[lk.i].path,
                    ParentIsDir(remove_file_or_dir(ws, lk.plan.update[lk.i].path), lk.plan.update[lk.i].path))

\* apply_change_list(Create): one path removed and written
MigrateCreate ==
    /\ lk.ph = "Create"
    /\ migrate_step(apply_change_list(ws, <<lk.plan.create[lk.i]>>, 1, "Create"), lk.plan.create[lk.i].path,
                    ParentIsDir(remove_file_or_dir(ws, lk.plan.create[lk.i].path), lk.plan.create[lk.i].path))

\* update_index, once update_workspace returned Ok
MigrateIndex ==
    /\ lk.ph = "Index"
    /\ index' = update_index(index, ws, lk.plan)
    /\ tdata' = Append(tdata, [op |-> "Index", path |-> <<>>, parent |-> TRUE, kind |-> "dir", err |-> ""])
    /\ lk' = [lk EXCEPT !.ph = "Ok"]
    /\ UNCHANGED <<ws, gitdir, indexFile, locks, refs, commits, result, edits>>

NextMigrate ==
    \/ MigrateDelete
    \/ MigrateRmdir
    \/ MigrateMkdir
    \/ MigrateUpdate
    \/ MigrateCreate
    \/ MigrateIndex

SpecMigrate == InitMigrate /\ [][NextMigrate]_vars

---------------------------------------------------------------------------
(* SpecTreeDiff: TreeDiff::compare_oids on two tree OIDs, either of which can
   be None.  lk holds the two arguments (the tree an OID names) and tdata the
   changes after the call *)

\* Option<String> of a tree OID: None, or the OID of a tree
TreeOids == {[some |-> FALSE, tree |-> EmptyMap]} \cup {[some |-> TRUE, tree |-> T] : T \in Trees}

InitTreeDiff ==
    \E a \in TreeOids, b \in TreeOids :
        /\ RepoIdle
        /\ locks = EmptyMap
        /\ result = Res("start", "")
        /\ index = NewIndex
        /\ lk = [a |-> a, b |-> b]
        /\ tdata = {}

\* TreeDiff::new(database).compare_oids(a, b, Path::new(""))
CompareOids ==
    /\ result.cmd = "start"
    /\ tdata' = compare_oids(lk.a.some, lk.a.tree, lk.b.some, lk.b.tree, <<>>)
    /\ result' = Res("tree_diff", "")
    /\ UNCHANGED <<ws, gitdir, indexFile, locks, refs, commits, edits, index, lk>>

NextTreeDiff == CompareOids

SpecTreeDiff == InitTreeDiff /\ [][NextTreeDiff]_vars

---------------------------------------------------------------------------
(* SpecHunk: Hunk::filter on an edit script.  lk is the script and tdata the
   hunks returned *)

MaxScript == 9

HUNK_CONTEXT == 3

\* the edit scripts of a length: every sequence of edit types
RECURSIVE EditTypeSeqs(_)
EditTypeSeqs(n) ==
    IF n = 0 THEN {<<>>}
    ELSE {Append(s, t) : s \in EditTypeSeqs(n - 1), t \in {"Eql", "Ins", "Del"}}

\* how many of the first i edits carry a line of a (Eql, Del) or of b (Eql, Ins)
lines_before(types, i, other) == Cardinality({j \in 1..i : types[j] # other})

\* the script with the lines numbered as Myers::diff numbers them
Script(types) ==
    [i \in 1..Len(types) |->
        Edit(types[i],
             IF types[i] = "Ins" THEN NoLine ELSE [number |-> lines_before(types, i, "Ins"), text |-> "x"],
             IF types[i] = "Del" THEN NoLine ELSE [number |-> lines_before(types, i, "Del"), text |-> "x"])]

\* get_edit
get_edit(es, offset) ==
    IF offset < 0 \/ offset >= Len(es) THEN [some |-> FALSE, edit |-> Edit("Eql", NoLine, NoLine)]
    ELSE [some |-> TRUE, edit |-> es[offset + 1]]

\* the inner loop of Hunk::filter: skip over Eql edits
RECURSIVE skip_eql(_, _)
skip_eql(es, offset) ==
    IF get_edit(es, offset).some /\ get_edit(es, offset).edit.edit_type = "Eql"
    THEN skip_eql(es, offset + 1)
    ELSE offset

\* Hunk::new
Hunk(a_start, b_start, es) == [a_start |-> a_start, b_start |-> b_start, edits |-> es]

\* the counter of build_hunk after looking HUNK_CONTEXT edits ahead
next_counter(es, offset, counter) ==
    IF get_edit(es, offset + HUNK_CONTEXT).some
          /\ get_edit(es, offset + HUNK_CONTEXT).edit.edit_type \in {"Ins", "Ins"}
    THEN 2 * HUNK_CONTEXT + 1
    ELSE counter - 1

\* the while loop of Hunk::build_hunk
RECURSIVE build_loop(_, _, _, _)
build_pushed(es, offset, counter, pushed) ==
    IF offset + 1 >= Len(es) THEN [edits |-> pushed, offset |-> offset + 1]
    ELSE build_loop(es, offset + 1, next_counter(es, offset + 1, counter), pushed)

build_loop(es, offset, counter, pushed) ==
    IF counter = 0 THEN [edits |-> pushed, offset |-> offset]
    ELSE build_pushed(es, offset, counter,
                      IF offset >= 0 /\ counter > 0 THEN Append(pushed, get_edit(es, offset).edit) ELSE pushed)

\* Hunk::build_hunk
build_hunk(a_start, b_start, es, offset) ==
    [hunk |-> Hunk(a_start, b_start, build_loop(es, offset, -1, <<>>).edits),
     offset |-> build_loop(es, offset, -1, <<>>).offset]

\* a_start and b_start of the hunk that begins at offset
hunk_start(es, offset) ==
    IF offset < 0 THEN [a |-> 0, b |-> 0]
    ELSE [a |-> get_edit(es, offset).edit.a_line.number, b |-> get_edit(es, offset).edit.b_line.number]

\* the outer loop of Hunk::filter
RECURSIVE filter_loop(_, _, _)
filter_hunk(es, offset, hunks) ==
    filter_loop(es,
                build_hunk(hunk_start(es, offset).a, hunk_start(es, offset).b, es, offset).offset,
                Append(hunks, build_hunk(hunk_start(es, offset).a, hunk_start(es, offset).b, es, offset).hunk))

filter_skipped(es, offset, hunks) ==
    IF offset >= Len(es) THEN hunks
    ELSE filter_hunk(es, offset - (HUNK_CONTEXT + 1), hunks)

filter_loop(es, offset, hunks) == filter_skipped(es, skip_eql(es, offset), hunks)

\* Hunk::filter
filter(es) == filter_loop(es, 0, <<>>)

InitHunk ==
    \E n \in 0..MaxScript : \E types \in EditTypeSeqs(n) :
        /\ RepoIdle
        /\ locks = EmptyMap
        /\ result = Res("start", "")
        /\ index = NewIndex
        /\ lk = Script(types)
        /\ tdata = <<>>

\* Hunk::filter(edits)
HunkFilter ==
    /\ result.cmd = "start"
    /\ tdata' = filter(lk)
    /\ result' = Res("hunks", "")
    /\ UNCHANGED <<ws, gitdir, indexFile, locks, refs, commits, edits, index, lk>>

NextHunk == HunkFilter

SpecHunk == InitHunk /\ [][NextHunk]_vars

---------------------------------------------------------------------------
(* SpecRefresh: rug status taken step by step, between edits of the file and
   rug add.  lk is where the running status stands and its Lockfile handle;
   index is the index it holds in memory; tdata is its report; the lock file
   holds what write_updates has written to it *)

NoStatusRun == [pc |-> "idle", h |-> Lockfile(IndexPath)]

\* no command is running: the working tree is left alone during a command
Quiet == lk.pc = "idle"

InitRefresh ==
    /\ ws \in [AllPaths -> {NoFile} \cup TimedFiles]
    /\ \A p \in AllPaths \ {StatusPath} : ws[p] = NoFile
    /\ gitdir = "full"
    /\ indexFile = NoIndexFile
    /\ refs = MapPut(EmptyMap, HeadPath, <<SymStr(heads_path("master")), NL>>)
    /\ commits = <<>>
    /\ edits = 0
    /\ locks = EmptyMap
    /\ result = Res("start", "")
    /\ index = NewIndex
    /\ lk = NoStatusRun
    /\ tdata = Report(NoReport, EmptyMap, {})

\* chmod a-r of the file
UserChmod ==
    /\ ws[StatusPath].k = "file"
    /\ ws' = [ws EXCEPT ![StatusPath].perm = UNREADABLE]
    /\ result' = Res("chmod", "")
    /\ UNCHANGED <<gitdir, indexFile, locks, refs, commits, edits, index, lk, tdata>>

\* Index::load_for_update, first half: hold_for_update; Status::run panics on
\* its error
StatusHold ==
    \E h \in {hold_for_update(lk.h, locks, DirExists(gitdir, IndexPath))} :
        /\ Quiet
        /\ IF h.err # ""
           THEN /\ result' = Res("status", "panic")
                /\ UNCHANGED <<locks, lk>>
           ELSE /\ result' = Res("hold_for_update", "")
                /\ locks' = h.locks
                /\ lk' = [pc |-> "held", h |-> h.h]
        /\ UNCHANGED <<ws, gitdir, indexFile, refs, commits, edits, index, tdata>>

\* Index::load_for_update, second half: load
StatusLoad ==
    /\ lk.pc = "held"
    /\ index' = index_load(indexFile)
    /\ lk' = [lk EXCEPT !.pc = "loaded"]
    /\ result' = Res("load", "")
    /\ UNCHANGED <<ws, gitdir, indexFile, locks, refs, commits, edits, tdata>>

\* scan_workspace, load_head_tree, check_index_entries and
\* collect_deleted_head_files; a panic ends the process with its handle
StatusCheck ==
    \E r \in {check_index_entries(index, DOMAIN index.entries, scan_workspace(index, ws), ws, NoReport)} :
        \E head \in {load_head_tree(refs, commits)} :
            /\ lk.pc = "loaded"
            /\ IF r.err # "" \/ head.err # ""
               THEN /\ result' = Res("status", "panic")
                    /\ lk' = NoStatusRun
                    /\ index' = NewIndex
                    /\ UNCHANGED tdata
               ELSE /\ result' = Res("check", "")
                    /\ lk' = [lk EXCEPT !.pc = "checked"]
                    /\ index' = r.ix
                    /\ tdata' = Report(r, index_changes(index, head.tree), scan_untracked(index, ws, <<>>))
            /\ UNCHANGED <<ws, gitdir, indexFile, locks, refs, commits, edits>>

\* Index::write_updates up to lock.commit(): the rollback of an unchanged
\* index, which ends the status, or the entries written to the lock file
StatusWriteUpdates ==
    /\ lk.pc = "checked"
    /\ IF ~index.changed
       THEN /\ locks' = lock_rollback(lk.h, locks).locks
            /\ lk' = NoStatusRun
            /\ index' = NewIndex
            /\ result' = Res("status", "")
       ELSE /\ locks' = lock_write(lk.h, locks, index.entries).locks
            /\ lk' = [lk EXCEPT !.pc = "written"]
            /\ result' = Res("write", "")
            /\ UNCHANGED index
    /\ UNCHANGED <<ws, gitdir, indexFile, refs, commits, edits, tdata>>

\* lock.commit() of write_updates: the lock file becomes .git/index
StatusCommit ==
    /\ lk.pc = "written"
    /\ indexFile' = [present |-> TRUE, entries |-> locks[lk.h.lock_path][1]]
    /\ locks' = lock_commit(lk.h, locks, EmptyMap).locks
    /\ lk' = NoStatusRun
    /\ index' = NewIndex
    /\ result' = [Res("status", "") EXCEPT !.aux = 1]
    /\ UNCHANGED <<ws, gitdir, refs, commits, edits, tdata>>

NextRefresh ==
    \/ \E node \in TimedFiles : Quiet /\ UserTouch(node)
    \/ Quiet /\ UserUnlink
    \/ Quiet /\ UserChmod
    \/ Quiet /\ AddStat
    \/ StatusHold
    \/ StatusLoad
    \/ StatusCheck
    \/ StatusWriteUpdates
    \/ StatusCommit

SpecRefresh == InitRefresh /\ [][NextRefresh]_vars

---------------------------------------------------------------------------
(* SpecFlags: Entry::new for pathnames of the lengths around 0, MAX_PATH_SIZE,
   2^16 and 2^16 + MAX_PATH_SIZE *)

LenWindow == 16

PathLens ==
    UNION {{n \in (b - LenWindow)..(b + LenWindow) : n >= 0} :
             b \in {0, MAX_PATH_SIZE, 65536, 65536 + MAX_PATH_SIZE}}

InitFlags ==
    /\ RepoIdle
    /\ locks = EmptyMap
    /\ result = Res("start", "")
    /\ index = NewIndex
    /\ lk = [p \in Procs |-> Lockfile(<<"index">>)]
    /\ \E len \in PathLens : tdata = [len |-> len, flags |-> 0]

\* Entry::new(pathname, oid, metadata) for a pathname of tdata.len bytes
EntryNew ==
    /\ result.cmd = "start"
    /\ tdata' = [tdata EXCEPT !.flags = entry_flags(tdata.len)]
    /\ result' = Res("Entry::new", "")
    /\ UNCHANGED <<repoVars, locks, lk, index>>

NextFlags == EntryNew

SpecFlags == InitFlags /\ [][NextFlags]_vars

---------------------------------------------------------------------------
(* Claims *)

\* C1 (lock mutual exclusion): while the lock file of a path exists and the
\* caller's handle does not hold it, hold_for_update fails at once with
\* AlreadyExists and changes neither the lock files nor the target files nor
\* any handle; and never do two handles hold the same lock file.
C1_HoldRefused ==
    \A p \in Procs :
        (/\ ~lk[p].held
         /\ lk[p].lock_path \in DOMAIN locks
         /\ result'.cmd = "hold_for_update"
         /\ result'.proc = p
         /\ result' # result)
        => (/\ result'.status = "AlreadyExists"
            /\ locks' = locks
            /\ tdata' = tdata
            /\ lk' = lk)

C1_AtMostOneHolder ==
    \A p \in Procs, q \in Procs :
        (p # q /\ lk[p].held /\ lk[q].held) => lk[p].lock_path # lk[q].lock_path

C1_LockMutualExclusion == [][C1_HoldRefused]_vars /\ []C1_AtMostOneHolder

\* a process was refused while another process holds the lock and has written to it
C1_Witness ==
    /\ result.cmd = "hold_for_update"
    /\ result.status = "AlreadyExists"
    /\ \E q \in Procs :
          /\ q # result.proc
          /\ lk[q].held
          /\ lk[q].lock_path = lk[result.proc].lock_path
          /\ locks[lk[q].lock_path] # <<>>

\* C6 (I3): after any sequence of Index::add calls no entry's path is a strict
\* ancestor directory of another entry's path.
C6_NoAncestorEntries ==
    \A p \in DOMAIN index.entries, q \in DOMAIN index.entries : ~IsStrictPrefix(p, q)

\* adding the directory path a has just discarded two entries below it
C6_Witness ==
    /\ result.cmd = "index.add"
    /\ result.aux = 2
    /\ <<"a">> \in DOMAIN index.entries

\* whether a path is a directory of a tree
IsDirIn(T, p) == \E q \in DOMAIN T : IsStrictPrefix(p, q)

\* some path is a file in one tree and a directory in the other
KindSwap(T1, T2) ==
    \E p \in AllPaths : (p \in DOMAIN T1 /\ IsDirIn(T2, p)) \/ (IsDirIn(T1, p) /\ p \in DOMAIN T2)

\* C2 (migration refuses to destroy work): a checkout that ends with a migration
\* conflict leaves every workspace file, the .git/index file and every ref file,
\* HEAD included, exactly as they were before the command.
C2_ConflictStep ==
    (result'.cmd = "checkout" /\ result'.status = "conflict")
        => (ws' = ws /\ indexFile' = indexFile /\ refs' = refs)

C2_ConflictLeavesAllUnchanged == [][C2_ConflictStep]_vars

\* a checkout between two different trees was refused over a user's edit
C2_Witness ==
    /\ result.cmd = "checkout"
    /\ result.status = "conflict"
    /\ edits = 1
    /\ result.to \in 1..Len(commits)
    /\ commits[result.from].tree # commits[result.to].tree

\* C3 (index lock released on conflict): after a checkout that failed with a
\* migration conflict .git/index.lock does not exist.
C3_ConflictReleasesIndexLock ==
    (result.cmd = "checkout" /\ result.status = "conflict") => <<"index.lock">> \notin DOMAIN locks

\* C4 (checkout reaches the target tree): a successful checkout started from a
\* working tree and index equal to the current commit's tree leaves the working
\* tree with exactly the target tree's files, contents and modes and no other
\* directory, the index with exactly the target tree's entries, and HEAD at the
\* target commit.
C4_CleanCheckoutGivesTarget ==
    (result.cmd = "checkout" /\ result.status = "" /\ result.clean)
        => /\ WorkspaceIs(ws, commits[result.to].tree)
           /\ IndexIs(indexFile, commits[result.to].tree)
           /\ read_head(refs).oid = result.to

\* a clean checkout has removed a file and its emptied directory and kept a sibling
C4_Witness ==
    /\ result.cmd = "checkout"
    /\ result.status = ""
    /\ result.clean
    /\ <<"a", "d">> \in DOMAIN commits[result.from].tree
    /\ <<"a", "b", "c">> \in DOMAIN commits[result.from].tree
    /\ ws[<<"a", "b">>].k = "none"
    /\ ws[<<"a", "d">>].k = "file"

\* C5 (file and directory swapped): a checkout started from a clean working tree,
\* with no lock file around, between two commits in which some path is a file in
\* one and a directory in the other succeeds and leaves the working tree and the
\* index equal to the target commit's tree.
C5_SwapStep ==
    (/\ result'.cmd = "checkout"
     /\ result'.clean
     /\ DOMAIN locks = {}
     /\ KindSwap(commits[result'.from].tree, commits[result'.to].tree))
        => /\ result'.status = ""
           /\ WorkspaceIs(ws', commits[result'.to].tree)
           /\ IndexIs(indexFile', commits[result'.to].tree)

C5_FileDirectorySwapSucceeds == [][C5_SwapStep]_vars

\* C7 (update_head releases its locks): a commit or init whose update_head
\* returned Ok leaves no lock file that was not there before the command.
C7_UpdateHeadStep ==
    (result'.cmd \in {"commit", "init"} /\ result'.status = "")
        => DOMAIN locks' \subseteq DOMAIN locks

C7_UpdateHeadReleasesLocks == [][C7_UpdateHeadStep]_vars

\* what the command that has just run gave to update_head
C8_Written == IF result'.cmd = "init" THEN SymStr(heads_path(DEFAULT_BRANCH)) ELSE OidStr(result'.to)

\* C8 (frame of update_head): when update_head returns Ok, then with a symbolic
\* HEAD the branch file HEAD points to holds the new value and every other ref
\* file, HEAD included, is unchanged; with a direct or absent HEAD the HEAD file
\* holds the new value and every branch file is unchanged.
C8_UpdateHeadStep ==
    (result'.cmd \in {"commit", "init"} /\ result'.status = "")
        => LET head == read_oid_or_symref(refs, HeadPath)
           IN IF head.some /\ head.k = "sym"
              THEN refs' = MapPut(refs, head.path, <<C8_Written, NL>>)
              ELSE refs' = MapPut(refs, HeadPath, <<C8_Written, NL>>)

C8_UpdateHeadFrame == [][C8_UpdateHeadStep]_vars

\* C9 (I6): HEAD is absent, a direct OID or a symbolic ref to a path under
\* refs/heads/, and no file under refs/heads/ holds a "ref:" line.
C9_RefsWellFormed ==
    /\ LET head == read_oid_or_symref(refs, HeadPath)
       IN (head.some /\ head.k = "sym") => \E b \in Branches : head.path = heads_path(b)
    /\ \A b \in Branches : read_oid_or_symref(refs, heads_path(b)).k = "oid"

\* C10 (checkout is all-or-nothing): a checkout that fails after planning, in a
\* workspace operation or in set_head, leaves the working tree, the index file
\* and the refs as they were and no .git/index.lock.
C10_FailureStep ==
    (result'.cmd = "checkout" /\ result'.status \in {"workspace", "set_head"})
        => /\ ws' = ws
           /\ indexFile' = indexFile
           /\ refs' = refs
           /\ <<"index.lock">> \notin DOMAIN locks'

C10_CheckoutAllOrNothing == [][C10_FailureStep]_vars

\* a complete index image: the header with the number of entries that follow,
\* the entries, and a trailer that is the SHA-1 of all the bytes before it
CompleteImage(bytes) ==
    /\ Len(bytes) >= 2
    /\ bytes[1] = header_bytes(Len(bytes) - 2)
    /\ \A i \in 2..(Len(bytes) - 1) : bytes[i].k = "entry"
    /\ bytes[Len(bytes)] = checksum_bytes(SubSeq(bytes, 1, Len(bytes) - 1))

\* C11 (I4, also across crashes): the file .git/index is absent or a complete
\* index image; partially written data is only ever in .git/index.lock.
C11_IndexFileComplete == IndexPath \in DOMAIN tdata => CompleteImage(tdata[IndexPath])

\* a writer died in the middle of write_updates: its partial data is in the lock
\* file, beside an index file an earlier writer committed
C11_Witness ==
    /\ IndexPath \in DOMAIN tdata
    /\ Len(tdata[IndexPath]) > 2
    /\ <<"index.lock">> \in DOMAIN locks
    /\ locks[<<"index.lock">>] # <<>>
    /\ ~CompleteImage(locks[<<"index.lock">>])
    /\ \A p \in Procs : ~lk[p].held

\* C12 (P2, index round trip): loading the file write_updates has just produced
\* passes the checksum verification and yields entries equal in every field to
\* the entries of the index that was written.
C12_RoundTripStep ==
    result'.cmd = "write_updates"
        => LET ld == load_bytes(tdata'[IndexPath])
           IN ld.err = "" /\ ld.index.entries = index.entries

C12_IndexRoundTrip == [][C12_RoundTripStep]_vars

\* the files of .git/objects left by writers: tmp_obj_* files
TempFiles == {temp_path(name) : name \in TempNames} \cap DOMAIN tdata

\* C13 (P4, store is idempotent): a store of an object whose file exists returns
\* Ok at once and changes no file; a store fails only while another process is
\* inside write_object; and whenever no store is running there is no tmp_obj_*
\* file and every object file holds the complete deflated object.
C13_SecondStoreStep ==
    \A p \in Procs :
        (result'.proc = p /\ lk[p].pc = "idle")
            => (object_path(result'.to) \in DOMAIN tdata
                    => (result'.aux = 1 /\ result'.status = "" /\ tdata' = tdata /\ lk'[p] = Idle))

C13_FailureStep ==
    (result'.cmd = "store" /\ result'.status # "")
        => \E q \in Procs : q # result'.proc /\ lk[q].pc \in {"created", "writing", "written"}

C13_Quiescent ==
    (\A p \in Procs : lk[p].pc = "idle")
        => /\ TempFiles = {}
           /\ \A oid \in StoreOids :
                object_path(oid) \in DOMAIN tdata => tdata[object_path(oid)] = deflate(oid)

C13_StoreIdempotent == [][C13_SecondStoreStep /\ C13_FailureStep]_vars /\ []C13_Quiescent

\* store(x) has returned Ok for an object that was already stored
C13_Witness ==
    /\ result.cmd = "store"
    /\ result.status = ""
    /\ result.aux = 1
    /\ \A p \in Procs : lk[p].pc = "idle"
    /\ DOMAIN tdata = {object_path(result.to)}
    /\ tdata[object_path(result.to)] = deflate(result.to)
    /\ result.from = 1

\* C14 (concurrent stores): no store ends with an error, and the file at an
\* object's final path is at every moment absent or the complete deflated object.
C14_ConcurrentStoreSafe ==
    /\ ~(result.cmd = "store" /\ result.status # "")
    /\ \A oid \in StoreOids :
          object_path(oid) \in DOMAIN tdata => tdata[object_path(oid)] = deflate(oid)

\* the expression x followed by n times "^"
RECURSIVE C15_Carets(_, _)
C15_Carets(x, n) == IF n = 0 THEN x ELSE C15_Carets(x, n - 1) \o <<"^">>

\* C15 (P8): the outcome of resolving x~N is the outcome of resolving x followed
\* by N times "^" (the commit when there is one, the same failure when not).
C15_AncestorIsRepeatedParent ==
    \A x \in RevExprs, N \in {1, 2} :
        (result.cmd = "resolve" /\ tdata = x \o <<"~", IF N = 1 THEN "1" ELSE "2">>)
            => LET r == resolve_expr(refs, commits, C15_Carets(x, N))
               IN result.status = r.err /\ result.to = r.oid

\* C16 (create_branch): on an invalid name the call fails and creates no file; on
\* the name of an existing branch it fails with "already exists" and the branch
\* keeps its OID; on any other name refs/heads/<name> afterwards contains the OID.
C16_CreateStep ==
    result'.cmd = "create_branch" =>
        LET path == heads_path(tdata')
        IN IF INVALID_FILENAME(tdata')
           THEN result'.status # "" /\ refs' = refs /\ locks' = locks
           ELSE IF path \in DOMAIN refs
           THEN result'.status = "exists" /\ refs' = refs
           ELSE path \in DOMAIN refs' /\ refs'[path] = <<OidStr(result'.to), NL>>

C16_CreateBranchContract == [][C16_CreateStep]_vars

\* C17 (delete_branch): an existing branch's file is removed and its final OID
\* returned; for a branch that does not exist the call fails and leaves the ref
\* files and the lock files as they were.
C17_DeleteStep ==
    result'.cmd = "delete_branch" =>
        LET path == heads_path(tdata')
        IN IF path \in DOMAIN refs /\ locks = EmptyMap
           THEN /\ result'.status = ""
                /\ refs' = MapDel(refs, path)
                /\ result'.to = read_symref(refs, path, Cardinality(DOMAIN refs)).oid
                /\ locks' = locks
           ELSE path \notin DOMAIN refs => (result'.status # "" /\ refs' = refs /\ locks' = locks)

C17_DeleteBranchContract == [][C17_DeleteStep]_vars

\* C18 (add fails cleanly): an add that fails for a path that does not exist or a
\* file that cannot be read leaves .git/index as it was and no .git/index.lock;
\* and an add of readable files that finds no lock file succeeds.
C18_AddStep ==
    \A path \in AddPaths \cup {<<>>, <<"a">>} :
        AddCmd(path) =>
            /\ result'.status \in {"pathspec", "PermissionDenied"}
                  => (indexFile' = indexFile /\ <<"index.lock">> \notin DOMAIN locks')
            /\ (/\ <<"index.lock">> \notin DOMAIN locks
                /\ (path = <<>> \/ ws[path].k # "none")
                /\ \A p \in list_files(ws, path) : is_readable(ws[p].perm))
                  => (result'.status = "" /\ <<"index.lock">> \notin DOMAIN locks')
            /\ ((path # <<>> /\ ws[path].k = "none") \/ \E p \in list_files(ws, path) : ~is_readable(ws[p].perm))
                  => result'.status # ""

C18_AddFailsCleanly == [][C18_AddStep]_vars

\* an add has failed on an unreadable file while the index held an entry
C18_Witness ==
    /\ result.cmd = "add"
    /\ result.status = "PermissionDenied"
    /\ indexFile.present
    /\ DOMAIN indexFile.entries # {}
    /\ <<"index.lock">> \notin DOMAIN locks

\* the entry of the path in .git/index and the metadata of its file
C19_Entry == indexFile.entries[StatusPath]

C19_Stat == fs_metadata(ws[StatusPath])

\* C19 (stat refresh): when status finds an entry whose timestamps differ from
\* the file's and whose OID is the file's hash, it reports no change and the
\* entry in .git/index afterwards carries the file's current stat.
C19_RefreshStep ==
    (/\ result'.cmd = "status"
     /\ StatusPath \in DOMAIN indexFile.entries
     /\ ws[StatusPath].k = "file"
     /\ stat_match(C19_Entry, C19_Stat)
     /\ ~times_match(C19_Entry, C19_Stat)
     /\ C19_Entry.oid = ws[StatusPath].data)
        => /\ StatusPath \notin DOMAIN tdata'.changes
           /\ indexFile'.entries[StatusPath] = update_stat(C19_Entry, C19_Stat)

C19_StatusRefreshesStat == [][C19_RefreshStep]_vars

\* C20 (classification): no file -> Deleted; mode differs, or entry size non-zero
\* and differs -> Modified; else all four timestamps equal -> no change and the
\* file is not read; else Modified exactly when the blob OID differs.
C20_ClassifyStep ==
    (result'.cmd = "status" /\ StatusPath \in DOMAIN indexFile.entries)
        => LET e == C19_Entry
               change == IF StatusPath \in DOMAIN tdata'.changes THEN tdata'.changes[StatusPath] ELSE ""
               read == StatusPath \in tdata'.read
           IN IF ws[StatusPath].k # "file" THEN change = "Deleted"
              ELSE IF e.mode # entry_mode(C19_Stat.mode) \/ (e.size # 0 /\ e.size # C19_Stat.size)
              THEN change = "Modified"
              ELSE IF /\ e.ctime = C19_Stat.ctime /\ e.ctime_nsec = C19_Stat.ctime_nsec
                      /\ e.mtime = C19_Stat.mtime /\ e.mtime_nsec = C19_Stat.mtime_nsec
              THEN change = "" /\ ~read
              ELSE (change = "Modified") <=> (ws[StatusPath].data # e.oid)

C20_StatusClassification == [][C20_ClassifyStep]_vars

\* a status has reported a file as modified whose size and mode match its entry,
\* after reading it
C20_Witness ==
    /\ result.cmd = "status"
    /\ StatusPath \in DOMAIN tdata.changes
    /\ tdata.changes[StatusPath] = "Modified"
    /\ StatusPath \in tdata.read
    /\ stat_match(C19_Entry, C19_Stat)

\* the tree of the commit HEAD is on, and the entries of .git/index
C21_Head == commits[1].tree

C21_Index == indexFile.entries

\* C21 (index against HEAD): the index changes of a status are exactly Added for
\* an index path absent from the HEAD tree, Modified for a path in both whose mode
\* or OID differ, Deleted for a file of the HEAD tree that is no index entry, and
\* nothing for a path that is the same in both.
C21_IndexChangesStep ==
    (result'.cmd = "status" /\ result'.status = "")
        => \A p \in AllPaths :
              LET change == IF p \in DOMAIN tdata'.index_changes THEN tdata'.index_changes[p] ELSE ""
              IN change = (IF p \in DOMAIN C21_Index /\ p \notin DOMAIN C21_Head THEN "Added"
                           ELSE IF p \in DOMAIN C21_Index /\ p \in DOMAIN C21_Head
                           THEN IF C21_Index[p].mode # C21_Head[p].mode \/ C21_Index[p].oid # C21_Head[p].oid
                                THEN "Modified" ELSE ""
                           ELSE IF p \in DOMAIN C21_Head THEN "Deleted"
                           ELSE "")

C21_IndexAgainstHead == [][C21_IndexChangesStep]_vars

\* a status has reported an added, a modified-by-mode and a deleted path
C21_Witness ==
    /\ result.cmd = "status"
    /\ \E p \in DOMAIN tdata.index_changes :
          /\ tdata.index_changes[p] = "Modified"
          /\ C21_Index[p].oid = C21_Head[p].oid
    /\ \E p \in DOMAIN tdata.index_changes : tdata.index_changes[p] = "Added"
    /\ \E p \in DOMAIN tdata.index_changes : tdata.index_changes[p] = "Deleted"

\* a file below the path that is not tracked
C22_HoldsUntracked(ix, p) ==
    \E q \in AllPaths : IsPrefix(p, q) /\ ws[q].k = "file" /\ ~is_tracked(ix, q)

\* C22 (untracked): a path is listed as untracked exactly when it is not tracked,
\* is a file or a directory holding (at any depth) an untracked file, and lies in
\* no listed directory; directories are listed with the trailing "/".
C22_UntrackedStep ==
    (result'.cmd = "status" /\ result'.status = "")
        => LET ix == index_load(indexFile)
               listed == {u.path : u \in tdata'.untracked}
           IN /\ \A p \in AllPaths :
                    p \in listed <=>
                        /\ ws[p].k # "none"
                        /\ ~is_tracked(ix, p)
                        /\ C22_HoldsUntracked(ix, p)
                        /\ \A q \in Ancestors(p) : is_tracked(ix, q)
              /\ \A u \in tdata'.untracked : u.dir <=> ws[u.path].k = "dir"
              /\ \A p \in listed, q \in listed : ~IsStrictPrefix(p, q)

C22_UntrackedListing == [][C22_UntrackedStep]_vars

\* a status has listed an untracked directory and, next to it in a tracked
\* directory, an untracked file
C22_Witness ==
    /\ result.cmd = "status"
    /\ \E u \in tdata.untracked : u.dir
    /\ \E u \in tdata.untracked : ~u.dir /\ Len(u.path) = 2

\* the trees of a checkout of topic from master in SpecPlan, and the index the
\* checkout loads
PlanOld == commits[2].tree
PlanNew == commits[1].tree
PlanDiff == tree_diff(commits, 2, 1)
PlanEntries == indexFile.entries

\* a checkout step that got as far as planning the migration
PlanStep == result'.cmd = "checkout" /\ result'.to # 0

\* the index entry of the path differs from the tree item in mode or OID, or
\* there is no such item
C23_Differs(path, item) ==
    \/ ~item.some
    \/ item.mode # PlanEntries[path].mode
    \/ item.oid # PlanEntries[path].oid

\* the change's path is staged with what the target tree has there, and the
\* working tree holds the same file
C23_StagedEqual(c) ==
    /\ c.new.some /\ ~is_tree(c.new)
    /\ c.path \in DOMAIN PlanEntries
    /\ PlanEntries[c.path].oid = c.new.oid /\ PlanEntries[c.path].mode = c.new.mode
    /\ ws[c.path].k = "file"
    /\ ws[c.path].data = c.new.oid /\ 32768 + ws[c.path].perm = c.new.mode

C23_StaleHeader == "Your local changes to the following files would be overwritten by checkout:"

C23_PlanStep ==
    PlanStep =>
        /\ \A c \in PlanDiff :
              (c.path \in DOMAIN PlanEntries /\ C23_Differs(c.path, c.old) /\ C23_Differs(c.path, c.new))
                  => /\ result'.status = "conflict"
                     /\ C23_StaleHeader \in DOMAIN tdata'
                     /\ c.path \in tdata'[C23_StaleHeader].paths
                     /\ ws' = ws /\ indexFile' = indexFile /\ refs' = refs
        /\ \A c \in PlanDiff :
              C23_StagedEqual(c) => \A header \in DOMAIN tdata' : c.path \notin tdata'[header].paths
        /\ (PlanDiff # {} /\ \A c \in PlanDiff : C23_StagedEqual(c))
              => /\ result'.status = ""
                 /\ tdata' = EmptyMap
                 /\ \A c \in PlanDiff : ws'[c.path] = ws[c.path]

\* C23: while a checkout plans its migration, a path of the tree diff whose
\* index entry differs in mode or OID from both the old and the new tree entry
\* is reported as a stale-file conflict and nothing is changed; a path that is
\* staged with the new tree's entry and holds that file in the working tree is
\* in no conflict message, and a checkout all of whose paths are so goes through
C23_StaleFileConflict == [][C23_PlanStep]_vars

\* a checkout refused for a staged file that matches neither tree
C23_Witness ==
    /\ result.cmd = "checkout" /\ result.status = "conflict"
    /\ C23_StaleHeader \in DOMAIN tdata
    /\ \E path \in tdata[C23_StaleHeader].paths :
          /\ path \in DOMAIN PlanEntries
          /\ EntryAt(PlanOld, path).some /\ C23_Differs(path, EntryAt(PlanOld, path))
          /\ EntryAt(PlanNew, path).some /\ C23_Differs(path, EntryAt(PlanNew, path))

\* the working tree holds a regular file at the path that is not what the index
\* has there: another content, another mode, or no entry at all
C24_FileDiffers(path) ==
    /\ ws[path].k = "file"
    /\ path \in DOMAIN PlanEntries
          => \/ PlanEntries[path].oid # ws[path].data
             \/ PlanEntries[path].mode # 32768 + ws[path].perm

\* the header of the message the claim expects for a change
C24_Header(c) ==
    IF c.path \in DOMAIN PlanEntries
    THEN "Your local changes to the following files would be overwritten by checkout:"
    ELSE IF c.new.some
    THEN "The following untracked working tree files would be overwritten by checkout:"
    ELSE "The following untracked working tree files would be removed by checkout:"

C24_ConflictStep ==
    PlanStep =>
        \A c \in PlanDiff :
            C24_FileDiffers(c.path)
                => /\ result'.status = "conflict"
                   /\ C24_Header(c) \in DOMAIN tdata'
                   /\ c.path \in tdata'[C24_Header(c)].paths
                   /\ ws' = ws /\ indexFile' = indexFile /\ refs' = refs

C25_HoldsUntracked(path) ==
    \E q \in AllPaths :
        /\ IsStrictPrefix(path, q)
        /\ ws[q].k = "file"
        /\ q \notin DOMAIN PlanEntries
        /\ \A e \in DOMAIN PlanEntries : ~IsStrictPrefix(q, e)

C25_Header == "Updating the following directories would lose untracked files in them:"

C25_DirectoryStep ==
    PlanStep =>
        \A c \in PlanDiff :
            (c.path \notin DOMAIN PlanEntries /\ ws[c.path].k = "dir" /\ C25_HoldsUntracked(c.path))
                => /\ result'.status = "conflict"
                   /\ C25_Header \in DOMAIN tdata'
                   /\ c.path \in tdata'[C25_Header].paths

\* C25: a path of the tree diff that has no index entry and is a directory of
\* the working tree with an untracked file in it makes the checkout fail with
\* the stale-directory message: the header "Updating the following directories
\* would lose untracked files in them:" and then the path
C25_StaleDirectoryMessage == [][C25_DirectoryStep]_vars

\* the paths that differ between the two trees of the checkout: a file or a
\* directory that only one has, or that they have with another mode or content
C26_Differing == {p \in AllPaths : EntryAt(PlanOld, p) # EntryAt(PlanNew, p)}

\* what a status reports for the path when it compares the index with the tree
C26_Staged(entries, tree, p) ==
    IF p \in DOMAIN entries /\ p \notin DOMAIN tree THEN "Added"
    ELSE IF p \in DOMAIN entries /\ (entries[p].mode # tree[p].mode \/ entries[p].oid # tree[p].oid) THEN "Modified"
    ELSE IF p \notin DOMAIN entries /\ p \in DOMAIN tree THEN "Deleted"
    ELSE ""

C26_FrameStep ==
    (PlanStep /\ result'.status = "") =>
        \A p \in AllPaths \ C26_Differing :
            /\ ws'[p] = ws[p]
            /\ (p \in DOMAIN indexFile'.entries) = (p \in DOMAIN PlanEntries)
            /\ p \in DOMAIN PlanEntries => indexFile'.entries[p] = PlanEntries[p]
            /\ C26_Staged(indexFile'.entries, PlanNew, p) = C26_Staged(PlanEntries, PlanOld, p)

\* C26: a checkout that succeeds changes only the paths that differ between the
\* tree of the current commit and the tree of the target: at every other path
\* the working tree (with its unstaged edits and deletions) and the index (with
\* its staged additions and modifications) are as they were, so a status
\* reports there what it reported before
C26_CheckoutFrame == [][C26_FrameStep]_vars

\* the commits HEAD leads to: the commit it names and that commit's ancestors
RECURSIVE C27_History(_, _)
C27_History(oid, n) ==
    IF oid \notin 1..Len(commits) \/ n = 0 THEN {}
    ELSE {oid} \cup C27_History(commits[oid].parent, n - 1)

C27_FromHead ==
    LET head == read_head(refs)
    IN IF head.some THEN {head.oid} \cup C27_History(head.oid, MaxCommits) ELSE {}

\* every commit HEAD leads to is in the store, with its root tree and every
\* tree below it
C27_Reachable ==
    \A oid \in C27_FromHead :
        /\ oid \in tdata.commits
        /\ \A dir \in TreeDirs(commits[oid].tree) : tree_object(commits[oid].tree, dir) \in tdata.trees

\* a tree is stored after its subtrees; a ref is written after the commit and
\* its root tree are stored
C27_OrderStep ==
    /\ \A X \in tdata'.trees \ tdata.trees :
          \A dir \in TreeDirs(X) \ {<<>>} : tree_object(X, dir) \in tdata.trees
    /\ refs' # refs
          => \A oid \in {read_head(refs').oid} :
                /\ oid \in tdata.commits
                /\ commits[oid].tree \in tdata.trees

\* C27: while a commit runs and after it, also when it is killed between two
\* steps, every commit that HEAD leads to and every tree of such a commit is an
\* object of the store: a tree is stored only after its subtrees, and the ref
\* is written only after the root tree and the commit are stored
C27_HeadObjectsStored == []C27_Reachable /\ [][C27_OrderStep]_vars

\* a second commit with nested trees was killed after its trees were stored,
\* with HEAD on the first commit
C27_Witness ==
    /\ result.cmd = "commit" /\ result.status = "crash"
    /\ C27_FromHead # {}
    /\ \E oid \in C27_FromHead : <<"a", "b", "c">> \in DOMAIN commits[oid].tree
    /\ Cardinality(tdata.trees) > 3

\* the revisions of SpecResolve that lead to an object that is no commit, with
\* the object each leads to: an id, a unique prefix, and a parent or ancestor
\* expression over one
C28_NonCommit ==
    [name \in {"b3a", "b3a0", "b3a^", "b3b", "b3b~1"} |-> IF name \in {"b3b", "b3b~1"} THEN 4 ELSE 3]

C28_Message(name) ==
    IF C28_NonCommit[name] = 3 THEN "object b3a0 is a blob, not a commit"
    ELSE "object b3b0 is a tree, not a commit"

\* every ref that holds an OID names a commit of the store
C28_RefsNameCommits ==
    \A path \in DOMAIN refs :
        \A i \in 1..Len(refs[path]) :
            refs[path][i].k = "oid"
                => /\ refs[path][i].oid \in 1..Len(commits)
                   /\ obj_type(commits[refs[path][i].oid]) = "commit"

C28_ResolveStep ==
    /\ \A name \in DOMAIN C28_NonCommit :
          /\ CheckoutCmd(name)
                => /\ result'.status # ""
                   /\ <<"index.lock">> \notin DOMAIN locks => result'.status = C28_Message(name)
                   /\ refs' = refs /\ indexFile' = indexFile /\ ws' = ws
          /\ BranchCreate("new", name)
                => /\ result'.status = C28_Message(name)
                   /\ refs' = refs /\ indexFile' = indexFile /\ ws' = ws
    /\ (result'.cmd = "checkout" /\ result'.status = "")
          => /\ result'.to \in 1..Len(commits)
             /\ obj_type(commits[result'.to]) = "commit"

\* C28: resolving a revision never yields the OID of an object that is no
\* commit: for a name or a unique prefix of a blob or a tree the resolution
\* fails with "object <oid> is a <type>, not a commit", a checkout or a branch
\* with that start point changes no ref, no index entry and no file of the
\* working tree, and every OID a ref holds is a commit's
C28_OnlyCommits == []C28_RefsNameCommits /\ [][C28_ResolveStep]_vars

\* a checkout and a branch were refused for the name of a blob or a tree
C28_Witness ==
    /\ result.cmd \in {"checkout", "branch"}
    /\ result.status \in {"object b3a0 is a blob, not a commit", "object b3b0 is a tree, not a commit"}
    /\ heads_path("new") \notin DOMAIN refs

\* the name as git compares it: a subtree's name is followed by a slash
C29_GitName(name) == IF lk[name].mode = TREE_MODE THEN name \o <<47>> ELSE name

\* C29: the entries of a serialized tree come in git's order, the names compared
\* byte by byte with a subtree's name taken as if a slash followed it, each with
\* the mode 100644, 100755 or 40000, so that the bytes are those git writes
C29_GitTreeOrder ==
    result.cmd = "store"
        => /\ {tdata[i].name : i \in 1..Len(tdata)} = DOMAIN lk
           /\ Len(tdata) = Cardinality(DOMAIN lk)
           /\ \A i \in 1..Len(tdata) :
                 /\ tdata[i].oid = lk[tdata[i].name].oid
                 /\ tdata[i].mode = (CASE lk[tdata[i].name].mode = REGULAR_MODE -> "100644"
                                      [] lk[tdata[i].name].mode = EXECUTABLE_MODE -> "100755"
                                      [] OTHER -> "40000")
           /\ \A i \in 1..Len(tdata), j \in 1..Len(tdata) :
                 i < j => str_less(C29_GitName(tdata[i].name), C29_GitName(tdata[j].name))

\* the lines of a the edits carry: of the Eql and Del edits, in order
C30_ALines == [i \in 1..Len(SelectSeq(tdata, LAMBDA e : e.edit_type \in {"Eql", "Del"})) |->
                  SelectSeq(tdata, LAMBDA e : e.edit_type \in {"Eql", "Del"})[i].a_line]

\* the lines of b the edits carry: of the Eql and Ins edits, in order
C30_BLines == [i \in 1..Len(SelectSeq(tdata, LAMBDA e : e.edit_type \in {"Eql", "Ins"})) |->
                  SelectSeq(tdata, LAMBDA e : e.edit_type \in {"Eql", "Ins"})[i].b_line]

\* C30: the edits Myers::diff returns reproduce both inputs: the Eql and Del
\* edits carry in order exactly the lines of a, the Eql and Ins edits exactly the
\* lines of b, and every Eql edit pairs two lines of equal text
C30_DiffReproduces ==
    result.cmd = "diff"
        => /\ \A i \in 1..Len(tdata) : tdata[i].edit_type \in {"Eql", "Ins", "Del"}
           /\ C30_ALines = lk.a
           /\ C30_BLines = lk.b
           /\ \A i \in 1..Len(tdata) :
                 tdata[i].edit_type = "Eql" => tdata[i].a_line.text = tdata[i].b_line.text

\* a diff with an equal, an inserted and a deleted line and with more than one
\* round of the search
C30_Witness ==
    /\ result.cmd = "diff"
    /\ \A t \in {"Eql", "Ins", "Del"} : \E i \in 1..Len(tdata) : tdata[i].edit_type = t
    /\ Cardinality({i \in 1..Len(tdata) : tdata[i].edit_type # "Eql"}) >= 3

\* the paths the plan has for a phase, from the tree diff: the deleted paths,
\* their directories, the directories of the other paths, the updated and the
\* created paths
C31_Planned(ph) ==
    CASE ph = "Delete" -> {c.path : c \in {x \in PlanDiff : ActionOf(x) = "Delete"}}
      [] ph = "Rmdir" -> UNION {Ancestors(c.path) : c \in {x \in PlanDiff : ActionOf(x) = "Delete"}}
      [] ph = "Mkdir" -> UNION {Ancestors(c.path) : c \in {x \in PlanDiff : ActionOf(x) # "Delete"}}
      [] ph = "Update" -> {c.path : c \in {x \in PlanDiff : ActionOf(x) = "Update"}}
      [] ph = "Create" -> {c.path : c \in {x \in PlanDiff : ActionOf(x) = "Create"}}
      [] OTHER -> {}

\* the phases are passed in their order, each one completely and each path once,
\* rmdirs children first and with no error, mkdirs parents first and leaving a
\* directory, and the index is touched last and after no error
C31_PhaseOrder ==
    /\ \A i \in 1..Len(tdata), j \in 1..Len(tdata) :
          i < j => /\ phase_rank(tdata[i].op) <= phase_rank(tdata[j].op)
                   /\ <<tdata[i].op, tdata[i].path>> # <<tdata[j].op, tdata[j].path>>
                   /\ tdata[i].op = "Rmdir" /\ tdata[j].op = "Rmdir"
                          => ~IsStrictPrefix(tdata[i].path, tdata[j].path)
                   /\ tdata[i].op = "Mkdir" /\ tdata[j].op = "Mkdir"
                          => ~IsStrictPrefix(tdata[j].path, tdata[i].path)
    /\ \A j \in 1..Len(tdata) :
          /\ tdata[j].op # "Index" => tdata[j].path \in C31_Planned(tdata[j].op)
          /\ \A q \in {"Delete", "Rmdir", "Mkdir", "Update", "Create"} :
                phase_rank(q) < phase_rank(tdata[j].op) => \A p \in C31_Planned(q) :
                                      \E i \in 1..(j - 1) : tdata[i].op = q /\ tdata[i].path = p
          /\ tdata[j].op = "Rmdir" => tdata[j].err = ""
          /\ tdata[j].op = "Mkdir" /\ tdata[j].err = "" => tdata[j].kind = "dir"
          /\ tdata[j].op = "Index" => \A i \in 1..Len(tdata) : tdata[i].err = ""
          /\ tdata[j].err # "" => j = Len(tdata)
    /\ (\A j \in 1..Len(tdata) : tdata[j].op # "Index") => index = index_load(indexFile)

\* every file is written into a directory that is there at that moment
C31_WritesIntoDirectories ==
    \A j \in 1..Len(tdata) : tdata[j].op \in {"Update", "Create"} => tdata[j].parent

\* C31: apply_migration does all Delete changes, then the rmdirs deepest first
\* with failures ignored, then the mkdirs parents first with a file in the way
\* removed, then all Update and then all Create changes; the index is updated
\* only after every workspace phase succeeded, and no file is written into a
\* directory that does not exist at that moment
C31_MigrationOrder == C31_PhaseOrder /\ C31_WritesIntoDirectories

\* the file entry a tree has at a path: None where it has nothing or a subtree
C32_File(T, path) == IF path \in DOMAIN T THEN EntryAt(T, path) ELSE NoEntry

\* C32: compare_oids(a, b) gives exactly the pairs (file of a, file of b) of the
\* paths at which the two differ, a file being a blob entry and None where the
\* tree has nothing or a subtree: nothing for equal OIDs, for unchanged files
\* and for subtrees on both sides, and never a tree entry in a pair
C32_LeafChanges ==
    result.cmd = "tree_diff"
        => tdata = {[path |-> p, old |-> C32_File(lk.a.tree, p), new |-> C32_File(lk.b.tree, p)] :
                        p \in {q \in AllPaths : C32_File(lk.a.tree, q) # C32_File(lk.b.tree, q)}}

\* the edits of all hunks, one hunk after the other
RECURSIVE C33_Flat(_)
C33_Flat(hunks) == IF hunks = <<>> THEN <<>> ELSE Head(hunks).edits \o C33_Flat(Tail(hunks))

\* the Ins and Del edits of a sequence of edits, in its order
C33_Changes(es) == SelectSeq(es, LAMBDA e : e.edit_type # "Eql")

\* the place of an edit in the script (the line numbers make every edit unique)
C33_Place(e) == CHOOSE i \in 1..Len(lk) : lk[i] = e

\* the Eql edits a hunk has before its first and after its last Ins or Del
C33_Leading(es) == IF \E i \in 1..Len(es) : es[i].edit_type # "Eql"
                   THEN (CHOOSE i \in 1..Len(es) : es[i].edit_type # "Eql" /\ \A j \in 1..(i - 1) : es[j].edit_type = "Eql") - 1
                   ELSE Len(es)

C33_Trailing(es) == IF \E i \in 1..Len(es) : es[i].edit_type # "Eql"
                    THEN Len(es) - (CHOOSE i \in 1..Len(es) : es[i].edit_type # "Eql" /\ \A j \in (i + 1)..Len(es) : es[j].edit_type = "Eql")
                    ELSE Len(es)

\* C33: the hunks lose no change: every Ins and every Del edit of the script is
\* in exactly one hunk, the edits keep the order of the script within and across
\* the hunks, and a hunk has at most 3 Eql edits before its first and after its
\* last change
C33_HunksKeepChanges ==
    result.cmd = "hunks"
        => /\ C33_Changes(C33_Flat(tdata)) = C33_Changes(lk)
           /\ \A i \in 1..Len(C33_Flat(tdata)) : \E p \in 1..Len(lk) : lk[p] = C33_Flat(tdata)[i]
           /\ \A i \in 1..Len(C33_Flat(tdata)), j \in 1..Len(C33_Flat(tdata)) :
                 i < j => C33_Place(C33_Flat(tdata)[i]) < C33_Place(C33_Flat(tdata)[j])
           /\ \A h \in 1..Len(tdata) :
                 C33_Leading(tdata[h].edits) <= HUNK_CONTEXT /\ C33_Trailing(tdata[h].edits) <= HUNK_CONTEXT

C34_Lock == <<"index.lock">>

\* the entry of the file needs a stat refresh: its mode and size match the
\* file's, its times do not, and the content is the one it names
C34_NeedsRefresh ==
    /\ StatusPath \in DOMAIN indexFile.entries
    /\ ws[StatusPath].k = "file"
    /\ stat_match(indexFile.entries[StatusPath], fs_metadata(ws[StatusPath]))
    /\ ~times_match(indexFile.entries[StatusPath], fs_metadata(ws[StatusPath]))
    /\ indexFile.entries[StatusPath].oid = ws[StatusPath].data

\* while a status runs, .git/index.lock is there
C34_LockHeld == lk.pc # "idle" => C34_Lock \in DOMAIN locks

\* a status reads the index under the lock, leaves .git/index alone until it
\* ends, ends with a rollback exactly when no entry needs a refresh, and else
\* writes the index to the lock file and renames it; no lock file is left
C34_StatusStep ==
    /\ lk'.pc = "loaded" /\ lk.pc # "loaded" => C34_Lock \in DOMAIN locks /\ index' = index_load(indexFile)
    /\ lk'.pc # "idle" => indexFile' = indexFile
    /\ lk.pc = "checked" => (lk'.pc = "idle") = ~C34_NeedsRefresh
    /\ result'.cmd = "status" /\ result'.status = ""
          => /\ lk'.pc = "idle"
             /\ C34_Lock \in DOMAIN locks
             /\ C34_Lock \notin DOMAIN locks'
             /\ IF C34_NeedsRefresh
                THEN /\ locks[C34_Lock] # <<>>
                     /\ indexFile' = [present |-> TRUE, entries |-> locks[C34_Lock][1]]
                     /\ DOMAIN indexFile'.entries = DOMAIN indexFile.entries
                ELSE indexFile' = indexFile

---------------------------------------------------------------------------
\* C35: after any sequence of Index::add calls, the parents map has the key d
\* exactly when an entry lies below d, parents[d] is the set of the paths of
\* the entries below d and is never empty, and is_tracked(p) holds exactly
\* for the entry paths and the strict ancestor directories of entry paths.
C35_Below(d) == {q \in DOMAIN index.entries : IsStrictPrefix(d, q)}

C35_Universe == AllPaths \cup UNION {{SubSeq(q, 1, i) : i \in 0..Len(q)} : q \in AllPaths}

C35_ParentsExact ==
    /\ \A d \in DOMAIN index.parents : index.parents[d] = C35_Below(d) /\ index.parents[d] # {}
    /\ \A d \in C35_Universe \ {<<>>} : C35_Below(d) # {} => d \in DOMAIN index.parents
    /\ \A p \in C35_Universe :
          is_tracked(index, p) <=> (p \in DOMAIN index.entries \/ (p # <<>> /\ C35_Below(p) # {}))

\* adding a/b has discarded the entry a/b/c: the key a/b is gone and a keeps two entries
C35_Witness ==
    /\ result.cmd = "index.add"
    /\ result.aux = 1
    /\ <<"a">> \in DOMAIN index.parents
    /\ index.parents[<<"a">>] = {<<"a", "b">>, <<"a", "d">>}
    /\ <<"a", "b">> \notin DOMAIN index.parents

---------------------------------------------------------------------------
\* C36: for every path length L, also above 0xFFFF, the flags of the entry
\* made by Entry::new are min(L, 0xFFF).
C36_FlagsClamped ==
    result.cmd = "Entry::new" =>
        tdata.flags = IF tdata.len < MAX_PATH_SIZE THEN tdata.len ELSE MAX_PATH_SIZE

---------------------------------------------------------------------------
\* C37: two distinct target paths have distinct lock files, and a
\* hold_for_update is never refused because of the lock of a different target.
C37_DistinctLockFiles ==
    \A p \in Procs, q \in Procs :
        lk[p].file_path # lk[q].file_path => lk[p].lock_path # lk[q].lock_path

C37_Refused(p) ==
    /\ result'.cmd = "hold_for_update"
    /\ result'.proc = p
    /\ result'.status = "AlreadyExists"

C37_OtherTargetHolds(p) ==
    \E q \in Procs \ {p} :
        lk[q].held /\ lk[q].lock_path = lk[p].lock_path /\ lk[q].file_path # lk[p].file_path

C37_HoldStep == \A p \in Procs : C37_Refused(p) => ~C37_OtherTargetHolds(p)

C37_LockPerTarget == []C37_DistinctLockFiles /\ [][C37_HoldStep]_vars

---------------------------------------------------------------------------
\* C38: in every state reached by init, add, commit, branch and checkout the
\* chain of symbolic refs from HEAD ends: read_head returns an OID or None and
\* current_ref returns the path of the last ref.
C38_RefChainEnds ==
    /\ ~read_head(refs).loop
    /\ ~current_ref(refs, HeadPath, Cardinality(DOMAIN refs)).loop

---------------------------------------------------------------------------
\* C39: a create_branch that fails after the name was validated and found
\* unused leaves no file refs/heads/<name>.
C39_FailedAfterValidation ==
    /\ result'.cmd = "create_branch"
    /\ result'.status \notin {"", "invalid", "exists"}

C39_CreateStep == C39_FailedAfterValidation => heads_path(tdata') \notin DOMAIN refs'

C39_CreateBranchAtomic == [][C39_CreateStep]_vars

====
